---- MODULE Spec2Model ----
(***************************************************************************)
(* Request authentication and identity provisioning of the express server: *)
(* the IAP gate (iapAuthMiddleware), the audience resolver, the token      *)
(* validator, the development identity, user provisioning                  *)
(* (IapUserSessionService), session resolution (SessionService) and the    *)
(* cookie path of a route (AccessTokenService).                            *)
(*                                                                         *)
(* JavaScript strings are TLA+ strings.  The two JavaScript non-values are *)
(* the reserved strings Undefined and Null, which no configuration value,  *)
(* claim or header of the model equals.                                    *)
(***************************************************************************)
EXTENDS Integers, Sequences, FiniteSets, TLC

VARIABLES
    env,        \* process environment read by config.ts
    iapConfig,  \* the IAPConfig captured when the gate is constructed
    now,        \* wall clock, milliseconds since the epoch (Date.now())
    reqs,       \* per request: position in the pipeline and request-scoped state
    users,      \* Directory: persisted Users
    companies,  \* Directory: persisted Companies
    sessions,   \* Directory: persisted Sessions
    audIn,      \* argument of the last buildExpectedAudience call under test
    audOut,     \* its result
    devCalls    \* results of the createDevIAPUser calls made so far, in order

vars == <<env, iapConfig, now, reqs, users, companies, sessions, audIn, audOut, devCalls>>

-----------------------------------------------------------------------------
(* JavaScript values *)

Undefined == "<undefined>"
Null == "<null>"

\* JavaScript truthiness of a string-or-undefined value
Truthy(s) == s # "" /\ s # Undefined /\ s # Null

\* an absent object (an unset request field, a lookup that found nothing)
Nil == [nil |-> TRUE]

-----------------------------------------------------------------------------
(* Bounds *)

MaxReqs == 2        \* requests in flight
MaxDevTicks == 4    \* clock advances between createDevIAPUser calls under test
MaxDevCalls == 3    \* createDevIAPUser calls under test

-----------------------------------------------------------------------------
(* config.ts *)

DevEmail == "dev@temp-local-only.invalid"
DevName == "Joe Dev User"

\* ProcEnvHelper: an environment value is a string; "true" and "false" are
\* read as booleans
parseEnv(v) == IF v = "true" THEN TRUE ELSE IF v = "false" THEN FALSE ELSE v

\* ProcEnvHelper.getOrSetDefault
getOrSetDefault(e, key, default) == IF e[key] = Undefined THEN default ELSE parseEnv(e[key])

\* ProcEnvHelper.requiredOrThrow (a process whose variable is unset never starts)
requiredOrThrow(e, key) == parseEnv(e[key])

config(e) ==
    [env |-> getOrSetDefault(e, "NODE_ENV", "production"),
     iap |-> [enabled          |-> requiredOrThrow(e, "IAP_ENABLED"),
              projectNumber    |-> getOrSetDefault(e, "GCP_PROJECT_NUMBER", ""),
              projectId        |-> getOrSetDefault(e, "GCP_PROJECT_ID", ""),
              backendServiceId |-> getOrSetDefault(e, "GCP_BACKEND_SERVICE_ID", ""),
              devAutoSeed      |-> [enabled |-> getOrSetDefault(e, "IAP_ENABLED", FALSE),
                                    user    |-> [email |-> DevEmail, name |-> DevName]]]]

-----------------------------------------------------------------------------
(* iapAuthMiddleware.ts: configuration and audience *)

getIAPConfig(e) ==
    LET c == config(e) IN
    [enabled          |-> (c.env = "production" \/ c.iap.enabled),
     projectNumber    |-> c.iap.projectNumber,
     projectId        |-> c.iap.projectId,
     backendServiceId |-> c.iap.backendServiceId,
     \* config.iap.devAutoSeed is an object, hence always truthy
     devAutoSeed      |-> IF c.env # "production" THEN c.iap.devAutoSeed ELSE Nil]

BackendServiceForm(pn, bs) == "/projects/" \o pn \o "/global/backendServices/" \o bs
AppEngineForm(pn, pid) == "/projects/" \o pn \o "/apps/" \o pid

\* the two branches tested in the other order
buildExpectedAudienceAppFirst(c) ==
    IF Truthy(c.projectNumber) /\ Truthy(c.projectId)
      THEN AppEngineForm(c.projectNumber, c.projectId)
    ELSE IF Truthy(c.projectNumber) /\ Truthy(c.backendServiceId)
      THEN BackendServiceForm(c.projectNumber, c.backendServiceId)
    ELSE Null

\* the app-engine branch forgets to test projectNumber
buildExpectedAudienceNoNumber(c) ==
    IF Truthy(c.projectNumber) /\ Truthy(c.backendServiceId)
      THEN BackendServiceForm(c.projectNumber, c.backendServiceId)
    ELSE IF Truthy(c.projectId)
      THEN AppEngineForm(c.projectNumber, c.projectId)
    ELSE Null

buildExpectedAudience(c) ==
    IF Truthy(c.projectNumber) /\ Truthy(c.backendServiceId)
      THEN BackendServiceForm(c.projectNumber, c.backendServiceId)
    ELSE IF Truthy(c.projectNumber) /\ Truthy(c.projectId)
      THEN AppEngineForm(c.projectNumber, c.projectId)
    ELSE Null

-----------------------------------------------------------------------------
(* String helpers (String.prototype.split, array indexing) *)

RECURSIVE Split(_, _)
\* s.split(sep) for a one-character separator
Split(s, sep) ==
    LET hits == {i \in 1..Len(s) : SubSeq(s, i, i) = sep} IN
    IF hits = {} THEN <<s>>
    ELSE LET i == CHOOSE j \in hits : \A k \in hits : j <= k
         IN <<SubSeq(s, 1, i - 1)>> \o Split(SubSeq(s, i + 1, Len(s)), sep)

\* arr[i], zero-based; undefined past the end
At(arr, i) == IF i + 1 <= Len(arr) THEN arr[i + 1] ELSE Undefined

-----------------------------------------------------------------------------
(* The clock *)

T0 == 1000 * 1000 * 1000       \* Date.now() when the process starts, ms
TickMs == 700                  \* one clock advance, ms

\* Math.floor(Date.now() / 1000)
NowSecs(t) == t \div 1000

-----------------------------------------------------------------------------
(* iapAuthMiddleware.ts: development identity *)

DevAudience == "/projects/dev/apps/dev"
IapIssuer == "https://cloud.google.com/iap"

\* exp copies iat: the validity window is forgotten
createDevIAPUserNoWindow(c, t) ==
    [email |-> c.iap.devAutoSeed.user.email, sub |-> "accounts.google.com:dev-" \o c.iap.devAutoSeed.user.email,
     name |-> c.iap.devAutoSeed.user.name, picture |-> Undefined,
     aud |-> DevAudience, iss |-> IapIssuer, iat |-> NowSecs(t), exp |-> NowSecs(t)]

createDevIAPUser(c, t) ==
    LET nowS == NowSecs(t) IN
    [email   |-> IF Truthy(c.iap.devAutoSeed.user.email) THEN c.iap.devAutoSeed.user.email ELSE "",
     sub     |-> "accounts.google.com:dev-" \o c.iap.devAutoSeed.user.email,
     name    |-> c.iap.devAutoSeed.user.name,
     picture |-> Undefined,
     aud     |-> DevAudience,
     iss     |-> IapIssuer,
     iat     |-> nowS,
     exp     |-> nowS + 3600]

-----------------------------------------------------------------------------
(* google-auth-library, as called by validateIAPToken *)

CLOCK_SKEW_SECS == 5 * 60

\* A token is what the x-goog-iap-jwt-assertion header carries: whether its
\* signature verifies against the fetched keys, and its payload.
Token(sigOk, aud, iss, iat, exp, email, sub, name) ==
    [sigOk |-> sigOk, aud |-> aud, iss |-> iss, iat |-> iat, exp |-> exp,
     email |-> email, sub |-> sub, name |-> name, picture |-> Undefined]

\* OAuth2Client.verifySignedJwtWithCertsAsync: "ok", or the plain Error it throws
verifySignedJwtWithCertsAsync(token, requiredAudience, issuers, t) ==
    LET nowS == NowSecs(t) IN
    IF ~token.sigOk THEN "Error"
    ELSE IF nowS < token.iat - CLOCK_SKEW_SECS THEN "Error"
    ELSE IF nowS > token.exp + CLOCK_SKEW_SECS THEN "Error"
    ELSE IF token.iss \notin issuers THEN "Error"
    ELSE IF token.aud # requiredAudience THEN "Error"
    ELSE "ok"

-----------------------------------------------------------------------------
(* iapAuthMiddleware.ts: validateIAPToken, from the verification on *)

\* the payload check tests iat and exp only
validateIAPTokenNoClaimCheck(token, expectedAudience, t) ==
    IF verifySignedJwtWithCertsAsync(token, expectedAudience, {IapIssuer}, t) # "ok"
      THEN [error |-> "Error", user |-> Nil]
    ELSE IF token.iat = 0 \/ token.exp = 0
      THEN [error |-> "Unauthorized", user |-> Nil]
    ELSE [error |-> "none",
          user  |-> [email |-> token.email, sub |-> token.sub, name |-> token.name,
                     picture |-> token.picture, aud |-> token.aud, iss |-> token.iss,
                     iat |-> token.iat, exp |-> token.exp]]

\* the result of validateIAPToken once the keys are there: the error thrown
\* ("none" when it returns) and the IAPUserData returned
validateIAPToken(token, expectedAudience, t) ==
    IF verifySignedJwtWithCertsAsync(token, expectedAudience, {IapIssuer}, t) # "ok"
      THEN [error |-> "Error", user |-> Nil]
    ELSE IF ~Truthy(token.email) \/ ~Truthy(token.sub) \/ token.iat = 0 \/ token.exp = 0
      THEN [error |-> "Unauthorized", user |-> Nil]
    ELSE [error |-> "none",
          user  |-> [email |-> token.email, sub |-> token.sub, name |-> token.name,
                     picture |-> token.picture, aud |-> token.aud, iss |-> token.iss,
                     iat |-> token.iat, exp |-> token.exp]]

-----------------------------------------------------------------------------
(* Deployments and requests the model runs *)

Env(nodeEnv, iapEnabled, pn, pid, bs) ==
    [NODE_ENV |-> nodeEnv, IAP_ENABLED |-> iapEnabled, GCP_PROJECT_NUMBER |-> pn,
     GCP_PROJECT_ID |-> pid, GCP_BACKEND_SERVICE_ID |-> bs]

GateEnvs ==
    { Env("production", "true", "123", "my-proj", "be-1"),     \* behind a load balancer
      Env(Undefined, "false", Undefined, "my-proj", "be-1"),   \* production by default, no project number
      Env("development", "true", "123", "my-proj", Undefined), \* IAP switched on outside production
      Env("development", "false", "123", "my-proj", "be-1") }  \* local development

LbAudience == "/projects/123/global/backendServices/be-1"
AppAudience == "/projects/123/apps/my-proj"

IatOk == NowSecs(T0) - 60
ExpOk == NowSecs(T0) + 600
ExpPast == NowSecs(T0) - 3600

Tokens ==
    { Token(TRUE, LbAudience, IapIssuer, IatOk, ExpOk, "u@acme.com", "accounts.google.com:1", "Ann Lee"),
      Token(TRUE, AppAudience, IapIssuer, IatOk, ExpOk, "u@acme.com", "accounts.google.com:1", "Ann Lee"),
      Token(TRUE, LbAudience, IapIssuer, IatOk - 7200, ExpPast, "u@acme.com", "accounts.google.com:1", "Ann Lee"),
      Token(TRUE, LbAudience, IapIssuer, IatOk, ExpOk, Undefined, "accounts.google.com:1", "Ann Lee"),
      Token(TRUE, LbAudience, IapIssuer, IatOk, ExpOk, "u@acme.com", Undefined, "Ann Lee"),
      Token(TRUE, LbAudience, IapIssuer, IatOk, ExpOk, "bob", "accounts.google.com:2", "Bob Ray"),
      \* the first subject again, after its Google profile has changed
      [Token(TRUE, LbAudience, IapIssuer, IatOk, ExpOk, "ann@other.org", "accounts.google.com:1",
             "Ann B Lee") EXCEPT !.picture = "https://img.example/ann.png"] }

\* req.header('x-goog-iap-jwt-assertion'): a token, or Nil when the header is absent
\* (a request record holds it once the handler has read it)
Headers == Tokens \cup {Nil}

Reqs == 1..MaxReqs

AcmeCompany == [id |-> "c1", name |-> "Acme", domains |-> {"acme.com"}, createdBy |-> "admin"]

NewReq ==
    [pc |-> "idle", header |-> Nil, expectedAudience |-> Null,
     iapUser |-> Nil, identityFrom |-> "none", user |-> Nil, company |-> Nil,
     sessionData |-> Nil, nextCalls |-> 0, nextArg |-> "none",
     keyFetchCalled |-> FALSE, verifyCalled |-> FALSE, verifyResult |-> "none", dirReads |-> 0, dirWrites |-> 0,
     \* the exception thrown in the handler, the domain a ForbiddenException
     \* carries, and whether a create was refused as a duplicate
     thrown |-> "none", errorDomain |-> Undefined, conflict |-> FALSE, dirFailed |-> FALSE,
     \* the cookie path: req.cookies, the options of the route, the response
     \* written, the session looked up and the last-accessed update
     cookies |-> Nil, options |-> Nil, resStatus |-> 0, resBody |-> Nil,
     session |-> [notYet |-> TRUE], touch |-> "none",
     \* the calls of getIAPConfig() made while the request is handled
     configReads |-> 0]

-----------------------------------------------------------------------------
(* Directory: the repositories behind UserRepository, CompanyRepository and *)
(* SessionRepository, with the uniqueness constraints of the data model     *)

findByExternalId(sub) == {u \in users : u.externalId = sub}
findByDomain(domain) == {c \in companies : domain \in c.domains}
findByUserId(userId) == {x \in sessions : x.userId = userId}

\* existingSessions[0]: the most recently created
MostRecent(S) == CHOOSE x \in S : \A y \in S : y.seq <= x.seq

\* the expiry of session x has passed at time t
Expired(x, t) == x.expiresAt.plusDays = 0 /\ x.expiresAt.ms < t

FreshId(prefix, S) == prefix \o ToString(Cardinality(S) + 1)

UserCreateConflicts(u) == \E v \in users : v.email = u.email \/ v.externalId = u.externalId
CompanyCreateConflicts(c) == \E d \in companies : d.domains \cap c.domains # {}

-----------------------------------------------------------------------------
(* iapAuthMiddleware.ts: the gate, one action per suspension point *)

\* the failure is answered by the gate itself with 401; next is not called
FailDenied(r, kind) ==
    [r EXCEPT !.pc = "done", !.thrown = kind, !.resStatus = 401,
              !.resBody = [message |-> kind, token |-> ""]]

\* catch (error) { next(error) }
Fail(r, kind) ==
    [r EXCEPT !.pc = "done", !.thrown = kind, !.nextArg = kind, !.nextCalls = @ + 1]

\* handleAuthenticatedUser -> findOrCreateUser, up to its first await
StartProvisioning(r, identity, from) ==
    [r EXCEPT !.iapUser = identity, !.identityFrom = from, !.pc = "findUser"]

\* the development branch is tested before the enforced one
GateEntryDevFirst(r, header, cfg, c, t) ==
    IF cfg.devAutoSeed # Nil
      THEN StartProvisioning(r, createDevIAPUser(c, t), "dev")
    ELSE IF ~cfg.enabled
      THEN Fail(r, "Unauthorized")
    ELSE IF header = Nil
      THEN Fail([r EXCEPT !.header = header], "Unauthorized")
    ELSE IF buildExpectedAudience(cfg) = Null
      THEN Fail([r EXCEPT !.header = header], "InternalServerError")
    ELSE [r EXCEPT !.header = header, !.expectedAudience = buildExpectedAudience(cfg),
                         !.keyFetchCalled = TRUE, !.pc = "keys"]

\* the key fetch is started before the header is looked at
GateEntryKeysFirst(r, header, cfg, c, t) ==
    IF ~cfg.enabled /\ cfg.devAutoSeed = Nil
      THEN Fail(r, "Unauthorized")
    ELSE IF cfg.enabled
      THEN [r EXCEPT !.header = header, !.expectedAudience = buildExpectedAudience(cfg),
                         !.keyFetchCalled = TRUE, !.pc = "keys"]
    ELSE StartProvisioning(r, createDevIAPUser(c, t), "dev")

\* the audience is resolved before the header is looked at
GateEntryAudienceFirst(r, header, cfg, c, t) ==
    IF ~cfg.enabled /\ cfg.devAutoSeed = Nil
      THEN Fail(r, "Unauthorized")
    ELSE IF cfg.enabled
      THEN IF buildExpectedAudience(cfg) = Null
             THEN Fail([r EXCEPT !.header = header], "InternalServerError")
           ELSE IF header = Nil
             THEN Fail([r EXCEPT !.header = header], "Unauthorized")
           ELSE [r EXCEPT !.header = header, !.expectedAudience = buildExpectedAudience(cfg),
                         !.keyFetchCalled = TRUE, !.pc = "keys"]
    ELSE StartProvisioning(r, createDevIAPUser(c, t), "dev")

\* the mode is chosen for each request: one without the assertion header is
\* served under the development fallback when an auto-seed user is configured
GateEntryModePerRequest(r, header, cfg, c, t) ==
    IF header = Nil /\ c.iap.devAutoSeed.enabled
      THEN StartProvisioning(r, createDevIAPUser(c, t), "dev")
    ELSE IF ~cfg.enabled /\ cfg.devAutoSeed = Nil
      THEN Fail(r, "Unauthorized")
    ELSE IF cfg.enabled
      THEN IF buildExpectedAudience(cfg) = Null
             THEN Fail([r EXCEPT !.header = header], "InternalServerError")
           ELSE [r EXCEPT !.header = header, !.expectedAudience = buildExpectedAudience(cfg),
                         !.keyFetchCalled = TRUE, !.pc = "keys"]
    ELSE StartProvisioning(r, createDevIAPUser(c, t), "dev")

\* the request record after the synchronous part of the gate: r is the fresh
\* request, cfg the captured IAPConfig, c the module-level config, t Date.now().
\* The assertion header is read in the enforced branch only.
GateEntry(r, header, cfg, c, t) ==
    LET q == [r EXCEPT !.header = header] IN
    IF ~cfg.enabled /\ cfg.devAutoSeed = Nil
      THEN Fail(r, "Unauthorized")
    ELSE IF cfg.enabled
      THEN IF header = Nil
             THEN Fail(q, "Unauthorized")
           ELSE IF buildExpectedAudience(cfg) = Null
             THEN Fail(q, "InternalServerError")
           \* validateIAPToken: await oAuth2Client.getIapPublicKeys()
           ELSE [q EXCEPT !.expectedAudience = buildExpectedAudience(cfg),
                         !.keyFetchCalled = TRUE, !.pc = "keys"]
    ELSE IF cfg.devAutoSeed # Nil
      THEN StartProvisioning(r, createDevIAPUser(c, t), "dev")
    ELSE Fail(r, "Unauthorized")

\* a request arrives at the gate (requests are numbered in order of arrival)
Arrive(i) ==
    /\ reqs[i].pc = "idle"
    /\ \A j \in Reqs : j < i => reqs[j].pc # "idle"
    /\ \E header \in Headers :
         reqs' = [reqs EXCEPT ![i] = GateEntry(reqs[i], header, iapConfig, config(env), now)]
    /\ UNCHANGED <<env, iapConfig, now, users, companies, sessions, audIn, audOut, devCalls>>

\* getIapPublicKeys answers, or fails with a network error
KeysFetched(i) ==
    /\ reqs[i].pc = "keys"
    /\ \E ok \in BOOLEAN :
         reqs' = [reqs EXCEPT ![i] =
                    IF ok THEN [reqs[i] EXCEPT !.verifyCalled = TRUE, !.pc = "verify"]
                    ELSE Fail(reqs[i], "Error")]
    /\ UNCHANGED <<env, iapConfig, now, users, companies, sessions, audIn, audOut, devCalls>>

\* verifySignedJwtWithCertsAsync answers; the payload checks; then provisioning starts
Verified(i) ==
    /\ reqs[i].pc = "verify"
    /\ LET r == [reqs[i] EXCEPT !.verifyResult =
                    verifySignedJwtWithCertsAsync(reqs[i].header, reqs[i].expectedAudience,
                                                  {IapIssuer}, now)]
           v == validateIAPToken(r.header, r.expectedAudience, now)
       IN reqs' = [reqs EXCEPT ![i] =
                     IF v.error # "none" THEN Fail(r, v.error)
                     ELSE StartProvisioning(r, v.user, "token")]
    /\ UNCHANGED <<env, iapConfig, now, users, companies, sessions, audIn, audOut, devCalls>>

-----------------------------------------------------------------------------
(* IapUserSessionService: findOrCreateUser *)

RECURSIVE Join(_, _)
\* arr.join(sep)
Join(arr, sep) ==
    IF Len(arr) = 0 THEN ""
    ELSE IF Len(arr) = 1 THEN arr[1]
    ELSE arr[1] \o sep \o Join(Tail(arr), sep)

\* (iapUser.name || iapUser.email.split('@')[0]).split(' ')
nameParts(iapUser) ==
    Split(IF Truthy(iapUser.name) THEN iapUser.name ELSE At(Split(iapUser.email, "@"), 0), " ")

\* the email is not fallen back on: without a display name the first name is "User"
firstNameNoFallback(iapUser) ==
    IF Truthy(iapUser.name) /\ Truthy(At(Split(iapUser.name, " "), 0))
      THEN At(Split(iapUser.name, " "), 0) ELSE "User"

firstName(iapUser) ==
    IF Truthy(At(nameParts(iapUser), 0)) THEN At(nameParts(iapUser), 0) ELSE "User"

lastName(iapUser) ==
    IF Truthy(Join(Tail(nameParts(iapUser)), " ")) THEN Join(Tail(nameParts(iapUser)), " ") ELSE ""

\* the call into SessionService.findOrCreateSession, up to its await
\* the session is resolved without the User that was resolved
StartSessionUnresolved(r, user) == [r EXCEPT !.pc = "findSessions"]

StartSession(r, user) == [r EXCEPT !.user = user, !.pc = "findSessions"]

\* the lookup by external id is skipped: every login provisions anew
FindUserAlwaysNew(i) ==
    /\ reqs[i].pc = "findUser"
    /\ LET r == [reqs[i] EXCEPT !.dirReads = @ + 1]
           emailDomain == At(Split(r.iapUser.email, "@"), 1)
       IN reqs' = [reqs EXCEPT ![i] =
                     IF ~Truthy(emailDomain) THEN Fail(r, "BadRequest")
                     ELSE [r EXCEPT !.pc = "findCompany"]]
    /\ UNCHANGED <<env, iapConfig, now, users, companies, sessions, audIn, audOut, devCalls>>

\* an email without a domain goes on to the Company lookup
FindUserNoDomainCheck(i) ==
    /\ reqs[i].pc = "findUser"
    /\ LET r == [reqs[i] EXCEPT !.dirReads = @ + 1]
           found == findByExternalId(r.iapUser.sub)
       IN reqs' = [reqs EXCEPT ![i] =
                     IF found # {} THEN StartSession(r, CHOOSE u \in found : TRUE)
                     ELSE [r EXCEPT !.pc = "findCompany"]]
    /\ UNCHANGED <<env, iapConfig, now, users, companies, sessions, audIn, audOut, devCalls>>

\* the stored User is brought up to date with the identity on every login
FindUserProfileSync(i) ==
    /\ reqs[i].pc = "findUser"
    /\ LET r == [reqs[i] EXCEPT !.dirReads = @ + 1]
           found == findByExternalId(r.iapUser.sub)
           emailDomain == At(Split(r.iapUser.email, "@"), 1)
           u == CHOOSE v \in found : TRUE
           synced == [u EXCEPT !.email = r.iapUser.email, !.displayName = r.iapUser.name,
                               !.avatar = r.iapUser.picture]
       IN IF found # {}
            THEN /\ users' = (users \ {u}) \cup {synced}
                 /\ reqs' = [reqs EXCEPT ![i] = StartSession([r EXCEPT !.dirWrites = @ + 1], synced)]
            ELSE /\ UNCHANGED users
                 /\ reqs' = [reqs EXCEPT ![i] =
                               IF ~Truthy(emailDomain) THEN Fail(r, "BadRequest")
                               ELSE [r EXCEPT !.pc = "findCompany"]]
    /\ UNCHANGED <<env, iapConfig, now, companies, sessions, audIn, audOut, devCalls>>

\* a User found by its email is linked to the subject id and logged in
FindUserByEmailBackfill(i) ==
    /\ reqs[i].pc = "findUser"
    /\ LET r == [reqs[i] EXCEPT !.dirReads = @ + 1]
           found == findByExternalId(r.iapUser.sub)
           byEmail == {u \in users : u.email = r.iapUser.email}
           emailDomain == At(Split(r.iapUser.email, "@"), 1)
           linked == [CHOOSE u \in byEmail : TRUE EXCEPT !.externalId = r.iapUser.sub]
       IN IF found = {} /\ byEmail # {}
            THEN /\ users' = (users \ byEmail) \cup {linked}
                 /\ reqs' = [reqs EXCEPT ![i] = StartSession(r, linked)]
            ELSE /\ UNCHANGED users
                 /\ reqs' = [reqs EXCEPT ![i] =
                       IF found # {} THEN StartSession(r, CHOOSE u \in found : TRUE)
                       ELSE IF ~Truthy(emailDomain) THEN Fail(r, "BadRequest")
                       ELSE [r EXCEPT !.pc = "findCompany"]]
    /\ UNCHANGED <<env, iapConfig, now, companies, sessions, audIn, audOut, devCalls>>

\* UserRepository.findByExternalId answers
FindUser(i) ==
    /\ reqs[i].pc = "findUser"
    /\ LET r == [reqs[i] EXCEPT !.dirReads = @ + 1]
           found == findByExternalId(r.iapUser.sub)
           emailDomain == At(Split(r.iapUser.email, "@"), 1)
       IN reqs' = [reqs EXCEPT ![i] =
                     IF found # {} THEN StartSession(r, CHOOSE u \in found : TRUE)
                     ELSE IF ~Truthy(emailDomain) THEN Fail(r, "BadRequest")
                     ELSE [r EXCEPT !.pc = "findCompany"]]
    /\ UNCHANGED <<env, iapConfig, now, users, companies, sessions, audIn, audOut, devCalls>>

\* a Company is seeded wherever devAutoSeed is configured, enforced or not
FindCompanySeedWhenConfigured(i) ==
    /\ reqs[i].pc = "findCompany"
    /\ LET r == [reqs[i] EXCEPT !.dirReads = @ + 1]
           emailDomain == At(Split(r.iapUser.email, "@"), 1)
           found == findByDomain(emailDomain)
           \* const iapConfig = getIAPConfig(), when no Company was found
           cfg == getIAPConfig(env)
           q == [r EXCEPT !.configReads = @ + 1]
       IN reqs' = [reqs EXCEPT ![i] =
                     IF found # {}
                       THEN [r EXCEPT !.company = CHOOSE c \in found : TRUE, !.pc = "createUser"]
                     ELSE IF cfg.devAutoSeed # Nil
                       THEN [q EXCEPT !.pc = "createCompany"]
                     ELSE Fail([q EXCEPT !.errorDomain = emailDomain], "Forbidden")]
    /\ UNCHANGED <<env, iapConfig, now, users, companies, sessions, audIn, audOut, devCalls>>

\* any stored Company is taken, whatever its domains
FindCompanyAnyDomain(i) ==
    /\ reqs[i].pc = "findCompany"
    /\ LET r == [reqs[i] EXCEPT !.dirReads = @ + 1]
           emailDomain == At(Split(r.iapUser.email, "@"), 1)
           found == companies
           cfg == getIAPConfig(env)
           q == [r EXCEPT !.configReads = @ + 1]
       IN reqs' = [reqs EXCEPT ![i] =
                     IF found # {}
                       THEN [r EXCEPT !.company = CHOOSE c \in found : TRUE, !.pc = "createUser"]
                     ELSE IF ~cfg.enabled /\ cfg.devAutoSeed # Nil
                       THEN [q EXCEPT !.pc = "createCompany"]
                     ELSE Fail([q EXCEPT !.errorDomain = emailDomain], "Forbidden")]
    /\ UNCHANGED <<env, iapConfig, now, users, companies, sessions, audIn, audOut, devCalls>>

\* CompanyRepository.findByDomain answers
FindCompany(i) ==
    /\ reqs[i].pc = "findCompany"
    /\ LET r == [reqs[i] EXCEPT !.dirReads = @ + 1]
           emailDomain == At(Split(r.iapUser.email, "@"), 1)
           found == findByDomain(emailDomain)
           \* const iapConfig = getIAPConfig(), when no Company was found
           cfg == getIAPConfig(env)
           q == [r EXCEPT !.configReads = @ + 1]
       IN reqs' = [reqs EXCEPT ![i] =
                     IF found # {}
                       THEN [r EXCEPT !.company = CHOOSE c \in found : TRUE, !.pc = "createUser"]
                     ELSE IF ~cfg.enabled /\ cfg.devAutoSeed # Nil
                       THEN [q EXCEPT !.pc = "createCompany"]
                     ELSE Fail([q EXCEPT !.errorDomain = emailDomain], "Forbidden")]
    /\ UNCHANGED <<env, iapConfig, now, users, companies, sessions, audIn, audOut, devCalls>>

\* the Company is named after the whole email of the auto-seed user
CreateCompanyNamedByEmail(i) ==
    /\ reqs[i].pc = "createCompany"
    /\ LET r == [reqs[i] EXCEPT !.dirWrites = @ + 1]
           domain == getIAPConfig(env).devAutoSeed.user.email
           c == [id |-> FreshId("c", companies), name |-> domain, domains |-> {domain},
                 createdBy |-> "system"]
       IN IF CompanyCreateConflicts(c)
            THEN /\ reqs' = [reqs EXCEPT ![i] = Fail([r EXCEPT !.conflict = TRUE], "Error")]
                 /\ UNCHANGED companies
            ELSE /\ companies' = companies \cup {c}
                 /\ reqs' = [reqs EXCEPT ![i] = [r EXCEPT !.company = c, !.pc = "createUser"]]
    /\ UNCHANGED <<env, iapConfig, now, users, sessions, audIn, audOut, devCalls>>

\* the Company is handed to the User create without having been stored
CreateCompanyNotStored(i) ==
    /\ reqs[i].pc = "createCompany"
    /\ LET r == [reqs[i] EXCEPT !.dirWrites = @ + 1]
           domain == At(Split(getIAPConfig(env).devAutoSeed.user.email, "@"), 1)
           c == [id |-> FreshId("c", companies), name |-> domain, domains |-> {domain},
                 createdBy |-> "system"]
       IN reqs' = [reqs EXCEPT ![i] = [r EXCEPT !.company = c, !.pc = "createUser"]]
    /\ UNCHANGED <<env, iapConfig, now, users, companies, sessions, audIn, audOut, devCalls>>

\* createDummyCompany: CompanyRepository.create answers
CreateCompany(i) ==
    /\ reqs[i].pc = "createCompany"
    /\ LET r == [reqs[i] EXCEPT !.dirWrites = @ + 1]
           domain == At(Split(getIAPConfig(env).devAutoSeed.user.email, "@"), 1)
           c == [id |-> FreshId("c", companies), name |-> domain, domains |-> {domain},
                 createdBy |-> "system"]
       IN IF CompanyCreateConflicts(c)
            THEN /\ reqs' = [reqs EXCEPT ![i] = Fail([r EXCEPT !.conflict = TRUE], "Error")]
                 /\ UNCHANGED companies
            ELSE /\ companies' = companies \cup {c}
                 /\ reqs' = [reqs EXCEPT ![i] = [r EXCEPT !.company = c, !.pc = "createUser"]]
    /\ UNCHANGED <<env, iapConfig, now, users, sessions, audIn, audOut, devCalls>>

\* the User is created without the subject id
CreateUserNoExternalId(i) ==
    /\ reqs[i].pc = "createUser"
    /\ LET r == [reqs[i] EXCEPT !.dirWrites = @ + 1]
           u == [id |-> FreshId("u", users), email |-> r.iapUser.email,
                 firstName |-> firstName(r.iapUser), lastName |-> lastName(r.iapUser),
                 companyId |-> r.company.id, externalId |-> Null,
                 avatar |-> r.iapUser.picture, displayName |-> r.iapUser.name,
                 createdBy |-> "system"]
       IN IF \E v \in users : v.email = u.email
            THEN /\ reqs' = [reqs EXCEPT ![i] = Fail([r EXCEPT !.conflict = TRUE], "Error")]
                 /\ UNCHANGED users
            ELSE /\ users' = users \cup {u}
                 /\ reqs' = [reqs EXCEPT ![i] = StartSession(r, u)]
    /\ UNCHANGED <<env, iapConfig, now, companies, sessions, audIn, audOut, devCalls>>

\* a refused create is swallowed: the request goes on to its session
CreateUserFailureSwallowed(i) ==
    /\ reqs[i].pc = "createUser"
    /\ LET r == [reqs[i] EXCEPT !.dirWrites = @ + 1]
           u == [id |-> FreshId("u", users), email |-> r.iapUser.email,
                 firstName |-> firstName(r.iapUser), lastName |-> lastName(r.iapUser),
                 companyId |-> r.company.id, externalId |-> r.iapUser.sub,
                 avatar |-> r.iapUser.picture, displayName |-> r.iapUser.name,
                 createdBy |-> "system"]
       IN /\ users' = IF UserCreateConflicts(u) THEN users ELSE users \cup {u}
          /\ reqs' = [reqs EXCEPT ![i] = StartSession(r, u)]
    /\ UNCHANGED <<env, iapConfig, now, companies, sessions, audIn, audOut, devCalls>>

\* UserRepository.create answers
CreateUser(i) ==
    /\ reqs[i].pc = "createUser"
    /\ LET r == [reqs[i] EXCEPT !.dirWrites = @ + 1]
           u == [id |-> FreshId("u", users), email |-> r.iapUser.email,
                 firstName |-> firstName(r.iapUser), lastName |-> lastName(r.iapUser),
                 companyId |-> r.company.id, externalId |-> r.iapUser.sub,
                 avatar |-> r.iapUser.picture, displayName |-> r.iapUser.name,
                 createdBy |-> "system"]
       IN IF UserCreateConflicts(u)
            THEN /\ reqs' = [reqs EXCEPT ![i] = Fail([r EXCEPT !.conflict = TRUE], "Error")]
                 /\ UNCHANGED users
            ELSE /\ users' = users \cup {u}
                 /\ reqs' = [reqs EXCEPT ![i] = StartSession(r, u)]
    /\ UNCHANGED <<env, iapConfig, now, companies, sessions, audIn, audOut, devCalls>>

-----------------------------------------------------------------------------
(* SessionService: findOrCreateSession, createSession *)

SESSION_EXPIRY_DAYS == 30

\* A Date: the instant it was taken at, and the calendar days added to it since
\* (30 days in milliseconds do not fit the model's integers)
NewDate(t) == [ms |-> t, plusDays |-> 0]

\* d.setDate(d.getDate() + n)
AddDays(d, n) == [d EXCEPT !.plusDays = @ + n]

\* the session is attached and the next stage is never called
AttachNoNext(r, session) ==
    [r EXCEPT !.sessionData = session, !.pc = "done"]

\* req.sessionData = ...; next()
Attach(r, session) ==
    [r EXCEPT !.sessionData = session, !.pc = "done", !.nextCalls = @ + 1]

\* only sessions that have not expired are reused
FindSessionsExpiryChecked(i) ==
    /\ reqs[i].pc = "findSessions"
    /\ LET r == [reqs[i] EXCEPT !.dirReads = @ + 1]
           existingSessions == {x \in findByUserId(r.user.id) :
                                  x.expiresAt.plusDays > 0 \/ x.expiresAt.ms > now}
       IN reqs' = [reqs EXCEPT ![i] =
                     IF existingSessions # {} THEN Attach(r, MostRecent(existingSessions))
                     ELSE [r EXCEPT !.pc = "createSession"]]
    /\ UNCHANGED <<env, iapConfig, now, users, companies, sessions, audIn, audOut, devCalls>>

\* SessionRepository.findByUserId answers
FindSessions(i) ==
    /\ reqs[i].pc = "findSessions"
    /\ LET r == [reqs[i] EXCEPT !.dirReads = @ + 1]
           existingSessions == findByUserId(r.user.id)
       IN reqs' = [reqs EXCEPT ![i] =
                     IF existingSessions # {} THEN Attach(r, MostRecent(existingSessions))
                     ELSE [r EXCEPT !.pc = "createSession"]]
    /\ UNCHANGED <<env, iapConfig, now, users, companies, sessions, audIn, audOut, devCalls>>

\* the session id is the subject id of the identity
CreateSessionIdFromSubject(i) ==
    /\ reqs[i].pc = "createSession"
    /\ LET r == [reqs[i] EXCEPT !.dirWrites = @ + 1]
           x == [sessionId |-> r.iapUser.sub, userId |-> r.user.id,
                 expiresAt |-> AddDays(NewDate(now), SESSION_EXPIRY_DAYS),
                 seq |-> Cardinality(sessions) + 1]
       IN /\ sessions' = sessions \cup {x}
          /\ reqs' = [reqs EXCEPT ![i] = Attach(r, x)]
    /\ UNCHANGED <<env, iapConfig, now, users, companies, audIn, audOut, devCalls>>

\* createSession: SessionRepository.create answers
CreateSession(i) ==
    /\ reqs[i].pc = "createSession"
    /\ LET r == [reqs[i] EXCEPT !.dirWrites = @ + 1]
           x == [sessionId |-> FreshId("s", sessions), userId |-> r.user.id,
                 expiresAt |-> AddDays(NewDate(now), SESSION_EXPIRY_DAYS),
                 seq |-> Cardinality(sessions) + 1]
       IN /\ sessions' = sessions \cup {x}
          /\ reqs' = [reqs EXCEPT ![i] = Attach(r, x)]
    /\ UNCHANGED <<env, iapConfig, now, users, companies, audIn, audOut, devCalls>>

-----------------------------------------------------------------------------
(* The gate serving requests.  A request is served in milliseconds and a    *)
(* token lives for an hour: the clock stands still while the requests of a  *)
(* run are served.                                                          *)

Pending == "<pending>"

Init ==
    /\ env \in GateEnvs
    /\ iapConfig = getIAPConfig(env)
    /\ now = T0
    /\ reqs = [i \in Reqs |-> NewReq]
    /\ users = {}
    /\ companies \in {{}, {AcmeCompany}}
    /\ sessions = {}
    /\ audIn = Nil
    /\ audOut = Pending
    /\ devCalls = <<>>

Next ==
    \/ \E i \in Reqs : Arrive(i)
    \/ \E i \in Reqs : KeysFetched(i)
    \/ \E i \in Reqs : Verified(i)
    \/ \E i \in Reqs : FindUser(i)
    \/ \E i \in Reqs : FindCompany(i)
    \/ \E i \in Reqs : CreateCompany(i)
    \/ \E i \in Reqs : CreateUser(i)
    \/ \E i \in Reqs : FindSessions(i)
    \/ \E i \in Reqs : CreateSession(i)

Spec == Init /\ [][Next]_vars

-----------------------------------------------------------------------------
(* The gate in front of a Directory whose calls can fail *)

DirectoryReads == {"findUser", "findCompany", "findSessions"}
DirectoryWrites == {"createCompany", "createUser", "createSession"}

\* the Directory call a request is waiting for is rejected with an error of
\* no class (connection lost, timeout): the await throws, nothing is stored
DirectoryFails(i) ==
    /\ reqs[i].pc \in DirectoryReads \cup DirectoryWrites
    /\ reqs' = [reqs EXCEPT ![i] =
                  Fail([reqs[i] EXCEPT !.dirFailed = TRUE,
                                       !.dirReads = IF reqs[i].pc \in DirectoryReads THEN @ + 1 ELSE @,
                                       !.dirWrites = IF reqs[i].pc \in DirectoryWrites THEN @ + 1 ELSE @],
                       "Error")]
    /\ UNCHANGED <<env, iapConfig, now, users, companies, sessions, audIn, audOut, devCalls>>

NextFaulty ==
    \/ Next
    \/ \E i \in Reqs : DirectoryFails(i)

SpecFaulty == Init /\ [][NextFaulty]_vars

-----------------------------------------------------------------------------
(* The gate serving a user who logged in before: the Directory holds the    *)
(* User and the Sessions of earlier logins, some of them past their expiry  *)

AnnUser ==
    [id |-> "u1", email |-> "u@acme.com", firstName |-> "Ann", lastName |-> "Lee",
     companyId |-> AcmeCompany.id, externalId |-> "accounts.google.com:1",
     avatar |-> Undefined, displayName |-> "Ann Lee", createdBy |-> "system"]

\* created more than thirty days ago: its expiry lies two seconds back
ExpiredSession1 ==
    [sessionId |-> "s1", userId |-> AnnUser.id, expiresAt |-> NewDate(T0 - 2000), seq |-> 1]

\* created after ExpiredSession1 and expired as well, one second ago
ExpiredSession2 ==
    [sessionId |-> "s2", userId |-> AnnUser.id, expiresAt |-> NewDate(T0 - 1000), seq |-> 2]

\* created a minute ago
LiveSession2 ==
    [sessionId |-> "s2", userId |-> AnnUser.id,
     expiresAt |-> AddDays(NewDate(T0 - 60 * 1000), SESSION_EXPIRY_DAYS), seq |-> 2]

StoredSessions ==
    { {}, {ExpiredSession1}, {ExpiredSession1, LiveSession2}, {ExpiredSession1, ExpiredSession2} }

InitSession ==
    /\ env \in { Env("production", "true", "123", "my-proj", "be-1"),
                 Env("development", "false", "123", "my-proj", "be-1") }
    /\ iapConfig = getIAPConfig(env)
    /\ now = T0
    /\ reqs = [i \in Reqs |-> NewReq]
    /\ users = {AnnUser}
    /\ companies = {AcmeCompany}
    /\ sessions \in StoredSessions
    /\ audIn = Nil
    /\ audOut = Pending
    /\ devCalls = <<>>

SpecSession == InitSession /\ [][Next]_vars

-----------------------------------------------------------------------------
(* The gate in front of a Directory in which the email of the assertion is  *)
(* already taken: by a User registered without a subject id, or by a User   *)
(* of another subject id                                                    *)

\* registered by an administrator: no IAP login yet
AnnUnlinked == [AnnUser EXCEPT !.externalId = Null, !.createdBy = "admin"]

\* the same email under another subject id
AnnOtherSubject == [AnnUser EXCEPT !.externalId = "accounts.google.com:7"]

InitEmailTaken ==
    /\ env \in { Env("production", "true", "123", "my-proj", "be-1"),
                 Env("development", "false", "123", "my-proj", "be-1") }
    /\ iapConfig = getIAPConfig(env)
    /\ now = T0
    /\ reqs = [i \in Reqs |-> NewReq]
    /\ users \in { {AnnUnlinked}, {AnnOtherSubject} }
    /\ companies = {AcmeCompany}
    /\ sessions \in { {}, {ExpiredSession1} }
    /\ audIn = Nil
    /\ audOut = Pending
    /\ devCalls = <<>>

SpecEmailTaken == InitEmailTaken /\ [][Next]_vars

-----------------------------------------------------------------------------
(* AccessTokenService.ts: validateRequest, the cookie path of a route *)

\* the lookup has not answered yet
NotYet == [notYet |-> TRUE]

\* the lookup was rejected
Threw == [threw |-> TRUE]

\* JSON.stringify(req.cookies)
JSONStringify(cookies) ==
    IF cookies = Nil THEN Undefined
    ELSE IF cookies.session = Undefined THEN "{}"
    ELSE "{\"session\":\"" \o cookies.session \o "\"}"

\* res.status(401).json({ message, token })
denyRequest(r, msg, headersProvidedString) ==
    [r EXCEPT !.resStatus = 401, !.pc = "done",
              !.resBody = [message |-> msg, token |-> headersProvidedString]]

\* next()
CallNext(r) == [r EXCEPT !.nextCalls = @ + 1, !.pc = "done"]

\* req.cookies?.session
CookieSessionId(r) == IF r.cookies = Nil THEN Undefined ELSE r.cookies.session

\* SessionRepository.findBySessionId: the stored session with that id, or
\* nothing; for a stored session past its expiry the store may answer either
findBySessionId(sessionId) ==
    LET S == {x \in sessions : x.sessionId = sessionId}
    IN IF S = {} THEN {Nil}
       ELSE S \cup (IF \E x \in S : Expired(x, now) THEN {Nil} ELSE {})

\* the option is not looked at: a request without a session cookie is denied
ValidateRequestEntryOptionIgnored(r, options) ==
    IF r.sessionData # Nil THEN CallNext(r)
    ELSE IF ~Truthy(CookieSessionId(r))
      THEN denyRequest(r, "Authentication required. Please access through Google Cloud IAP or create a session.",
                       JSONStringify(r.cookies))
    ELSE [r EXCEPT !.pc = "findSession"]

\* the session cookie is looked at before the session data the gate attached
ValidateRequestEntryCookieFirst(r, options) ==
    IF Truthy(CookieSessionId(r)) THEN [r EXCEPT !.pc = "findSession"]
    ELSE IF r.sessionData # Nil THEN CallNext(r)
    ELSE IF options # Nil /\ options.passThruWithoutSession
      THEN CallNext(r)
    ELSE denyRequest(r, "Authentication required. Please access through Google Cloud IAP or create a session.",
                     JSONStringify(r.cookies))

\* validateRequest up to its await: r is the request as it reaches the route
ValidateRequestEntry(r, options) ==
    IF r.sessionData # Nil THEN CallNext(r)
    ELSE IF ~Truthy(CookieSessionId(r))
      THEN IF options # Nil /\ options.passThruWithoutSession
             THEN CallNext(r)
           ELSE denyRequest(r, "Authentication required. Please access through Google Cloud IAP or create a session.",
                            JSONStringify(r.cookies))
    ELSE [r EXCEPT !.pc = "findSession"]

\* what a request can bring to a route: the cookies parsed by cookie-parser
\* (Nil when there is no cookies object), the options the route was built with
CookieJars ==
    { Nil, [session |-> Undefined], [session |-> "s1"], [session |-> "s2"], [session |-> "s9"] }

RouteOptions == { Nil, [passThruWithoutSession |-> TRUE], [passThruWithoutSession |-> FALSE] }

\* req.sessionData as the gate may have left it: nothing, or a stored session
GateSessions == {Nil} \cup {x \in sessions : \A y \in sessions : y.seq <= x.seq}

\* a request reaches the route (requests are numbered in order of arrival)
CookieArrive(i) ==
    /\ reqs[i].pc = "idle"
    /\ \A j \in Reqs : j < i => reqs[j].pc # "idle"
    /\ \E cookies \in CookieJars, options \in RouteOptions, attached \in GateSessions :
         reqs' = [reqs EXCEPT ![i] =
                    ValidateRequestEntry([reqs[i] EXCEPT !.cookies = cookies, !.options = options,
                                                         !.sessionData = attached],
                                         options)]
    /\ UNCHANGED <<env, iapConfig, now, users, companies, sessions, audIn, audOut, devCalls>>

\* the whole stored session is attached, and a missing one lets the request through
SessionLookedUpUnchecked(i) ==
    /\ reqs[i].pc = "findSession"
    /\ \E answer \in findBySessionId(CookieSessionId(reqs[i])) \cup {Threw} :
         LET r == [reqs[i] EXCEPT !.dirReads = @ + 1] IN
         reqs' = [reqs EXCEPT ![i] =
                    IF answer = Threw
                      THEN denyRequest([r EXCEPT !.thrown = "Error"], "Invalid session.", "")
                    ELSE IF answer = Nil
                      THEN CallNext([r EXCEPT !.session = answer])
                    ELSE CallNext([r EXCEPT !.session = answer, !.touch = "pending",
                                            !.dirWrites = @ + 1, !.sessionData = answer])]
    /\ UNCHANGED <<env, iapConfig, now, users, companies, sessions, audIn, audOut, devCalls>>

\* a rejected lookup is not caught: the request is neither answered nor handed on
SessionLookedUpThrowEscapes(i) ==
    /\ reqs[i].pc = "findSession"
    /\ \E answer \in findBySessionId(CookieSessionId(reqs[i])) \cup {Threw} :
         LET r == [reqs[i] EXCEPT !.dirReads = @ + 1] IN
         reqs' = [reqs EXCEPT ![i] =
                    IF answer = Threw
                      THEN [r EXCEPT !.thrown = "Error", !.pc = "done"]
                    ELSE IF answer = Nil
                      THEN denyRequest([r EXCEPT !.session = answer],
                                       "Session not found or expired.", "")
                    ELSE CallNext([r EXCEPT !.session = answer, !.touch = "pending",
                                            !.dirWrites = @ + 1,
                                            !.sessionData = [sessionId |-> answer.sessionId,
                                                             userId |-> answer.userId]])]
    /\ UNCHANGED <<env, iapConfig, now, users, companies, sessions, audIn, audOut, devCalls>>

\* the cookie is trusted: a session id that is not stored is attached as it came
SessionLookedUpCookieTrusted(i) ==
    /\ reqs[i].pc = "findSession"
    /\ \E answer \in findBySessionId(CookieSessionId(reqs[i])) \cup {Threw} :
         LET r == [reqs[i] EXCEPT !.dirReads = @ + 1] IN
         reqs' = [reqs EXCEPT ![i] =
                    IF answer = Threw
                      THEN denyRequest([r EXCEPT !.thrown = "Error"], "Invalid session.", "")
                    ELSE IF answer = Nil
                      THEN CallNext([r EXCEPT !.session = answer,
                                              !.sessionData = [sessionId |-> CookieSessionId(r),
                                                               userId |-> Undefined]])
                    ELSE CallNext([r EXCEPT !.session = answer, !.touch = "pending",
                                            !.dirWrites = @ + 1,
                                            !.sessionData = [sessionId |-> answer.sessionId,
                                                             userId |-> answer.userId]])]
    /\ UNCHANGED <<env, iapConfig, now, users, companies, sessions, audIn, audOut, devCalls>>

\* SessionRepository.findBySessionId answers, or is rejected
SessionLookedUp(i) ==
    /\ reqs[i].pc = "findSession"
    /\ \E answer \in findBySessionId(CookieSessionId(reqs[i])) \cup {Threw} :
         LET r == [reqs[i] EXCEPT !.dirReads = @ + 1] IN
         reqs' = [reqs EXCEPT ![i] =
                    IF answer = Threw
                      \* catch (error): denyRequest
                      THEN denyRequest([r EXCEPT !.thrown = "Error"], "Invalid session.", "")
                    ELSE IF answer = Nil
                      THEN denyRequest([r EXCEPT !.session = answer],
                                       "Session not found or expired.", "")
                    \* updateLastAccessed is started and not awaited
                    ELSE CallNext([r EXCEPT !.session = answer, !.touch = "pending",
                                            !.dirWrites = @ + 1,
                                            !.sessionData = [sessionId |-> answer.sessionId,
                                                             userId |-> answer.userId]])]
    /\ UNCHANGED <<env, iapConfig, now, users, companies, sessions, audIn, audOut, devCalls>>

\* a failed update is answered with 401
LastAccessedUpdatedSurfaced(i) ==
    /\ reqs[i].touch = "pending"
    /\ \E ok \in BOOLEAN :
         reqs' = [reqs EXCEPT ![i] =
                    IF ok THEN [reqs[i] EXCEPT !.touch = "ok"]
                    ELSE denyRequest([reqs[i] EXCEPT !.touch = "failed", !.thrown = "Error"],
                                     "Invalid session.", "")]
    /\ UNCHANGED <<env, iapConfig, now, users, companies, sessions, audIn, audOut, devCalls>>

\* SessionRepository.updateLastAccessed settles: done, or failed and logged.
\* The last-accessed time is not part of the model's Session: nothing reads it.
LastAccessedUpdated(i) ==
    /\ reqs[i].touch = "pending"
    /\ \E ok \in BOOLEAN :
         reqs' = [reqs EXCEPT ![i].touch = IF ok THEN "ok" ELSE "failed"]
    /\ UNCHANGED <<env, iapConfig, now, users, companies, sessions, audIn, audOut, devCalls>>

InitCookie ==
    /\ env = Env("production", "true", "123", "my-proj", "be-1")
    /\ iapConfig = getIAPConfig(env)
    /\ now = T0
    /\ reqs = [i \in Reqs |-> NewReq]
    /\ users = {AnnUser}
    /\ companies = {AcmeCompany}
    /\ sessions \in { {}, {ExpiredSession1, LiveSession2} }
    /\ audIn = Nil
    /\ audOut = Pending
    /\ devCalls = <<>>

NextCookie ==
    \/ \E i \in Reqs : CookieArrive(i)
    \/ \E i \in Reqs : SessionLookedUp(i)
    \/ \E i \in Reqs : LastAccessedUpdated(i)

SpecCookie == InitCookie /\ [][NextCookie]_vars

-----------------------------------------------------------------------------
(* The name parsing of findOrCreateUser applied to identities of every      *)
(* shape: the request has been verified, no User has its subject id, and    *)
(* the Company of its domain was found; UserRepository.create is next       *)

DisplayNames ==
    { Undefined, "", " ", "Ann", "Ann Lee", "Ann B Lee", "A B C D", " Lee", "Ann ",
      "Ann  Lee", "Ann\tLee", "User" }

Emails == { "u@acme.com", "@acme.com", "first last@acme.com", " lead@acme.com", "a.b@acme.com" }

NameTokens ==
    { Token(TRUE, LbAudience, IapIssuer, IatOk, ExpOk, email, "accounts.google.com:1", name) :
        email \in Emails, name \in DisplayNames }

\* the request that carried token tk, at its await of UserRepository.create
AtUserCreate(tk, e) ==
    [GateEntry(NewReq, tk, getIAPConfig(e), config(e), T0) EXCEPT
        !.verifyCalled = TRUE, !.verifyResult = "ok",
        !.iapUser = validateIAPToken(tk, LbAudience, T0).user, !.identityFrom = "token",
        !.dirReads = 2, !.company = AcmeCompany, !.pc = "createUser"]

InitName ==
    /\ env = Env("production", "true", "123", "my-proj", "be-1")
    /\ iapConfig = getIAPConfig(env)
    /\ now = T0
    /\ \E tk \in NameTokens :
         reqs = [i \in Reqs |-> IF i = 1 THEN AtUserCreate(tk, env) ELSE NewReq]
    /\ users = {}
    /\ companies = {AcmeCompany}
    /\ sessions = {}
    /\ audIn = Nil
    /\ audOut = Pending
    /\ devCalls = <<>>

NextName == \E i \in Reqs : CreateUser(i)

SpecName == InitName /\ [][NextName]_vars

-----------------------------------------------------------------------------
(* buildExpectedAudience applied to every configuration *)

ConfigValues == {Undefined, "", "123", "456"}

AudienceInputs ==
    { [enabled |-> TRUE, projectNumber |-> pn, projectId |-> pid, backendServiceId |-> bs,
       devAutoSeed |-> Nil] :
      pn \in ConfigValues, pid \in {Undefined, "", "my-proj", "other"},
      bs \in {Undefined, "", "be-1", "be-2"} }

InitAudience ==
    /\ env = Env("production", "true", "123", "my-proj", "be-1")
    /\ iapConfig = getIAPConfig(env)
    /\ now = T0
    /\ reqs = [i \in Reqs |-> NewReq]
    /\ users = {}
    /\ companies = {}
    /\ sessions = {}
    /\ audIn \in AudienceInputs
    /\ audOut = Pending
    /\ devCalls = <<>>

CallBuildExpectedAudience ==
    /\ audOut = Pending
    /\ audOut' = buildExpectedAudience(audIn)
    /\ UNCHANGED <<env, iapConfig, now, reqs, users, companies, sessions, audIn, devCalls>>

NextAudience == CallBuildExpectedAudience

SpecAudience == InitAudience /\ [][NextAudience]_vars

-----------------------------------------------------------------------------
(* createDevIAPUser called repeatedly in one process *)

InitDev ==
    /\ env = Env("development", "false", "123", "my-proj", "be-1")
    /\ iapConfig = getIAPConfig(env)
    /\ now = T0
    /\ reqs = [i \in Reqs |-> NewReq]
    /\ users = {}
    /\ companies = {}
    /\ sessions = {}
    /\ audIn = Nil
    /\ audOut = Pending
    /\ devCalls = <<>>

TickDev ==
    /\ now < T0 + MaxDevTicks * TickMs
    /\ now' = now + TickMs
    /\ UNCHANGED <<env, iapConfig, reqs, users, companies, sessions, audIn, audOut, devCalls>>

\* one call; the clock it read is kept with its result
CallCreateDevIAPUser ==
    /\ Len(devCalls) < MaxDevCalls
    /\ devCalls' = Append(devCalls, [at |-> now, user |-> createDevIAPUser(config(env), now)])
    /\ UNCHANGED <<env, iapConfig, now, reqs, users, companies, sessions, audIn, audOut>>

NextDev == TickDev \/ CallCreateDevIAPUser

SpecDev == InitDev /\ [][NextDev]_vars

-----------------------------------------------------------------------------
(* Properties of the audience resolver (under SpecAudience) *)

\* /projects/<x>/apps/<y>
IsAppEngineForm(a) ==
    LET p == Split(a, "/") IN Len(p) >= 5 /\ p[1] = "" /\ p[2] = "projects" /\ p[4] = "apps"

\* C1: with projectNumber and backendServiceId both non-empty, the audience is
\* /projects/<projectNumber>/global/backendServices/<backendServiceId>, whether
\* or not projectId is set, and never of the app-engine form.
C1_BackendServiceFormWins ==
    (audOut # Pending /\ Truthy(audIn.projectNumber) /\ Truthy(audIn.backendServiceId)) =>
        /\ audOut = "/projects/" \o audIn.projectNumber \o "/global/backendServices/"
                        \o audIn.backendServiceId
        /\ ~IsAppEngineForm(audOut)

C1_Witness ==
    /\ audOut # Pending
    /\ Truthy(audIn.projectNumber) /\ Truthy(audIn.backendServiceId) /\ Truthy(audIn.projectId)

\* C2: with backendServiceId empty and projectNumber and projectId non-empty the
\* audience is /projects/<projectNumber>/apps/<projectId>; in every case that is
\* neither this one nor the backend-service one, and so whenever projectNumber
\* is empty, there is no audience.
C2_AppEngineElseNone ==
    audOut # Pending =>
        /\ (~Truthy(audIn.backendServiceId) /\ Truthy(audIn.projectNumber) /\ Truthy(audIn.projectId))
              => audOut = "/projects/" \o audIn.projectNumber \o "/apps/" \o audIn.projectId
        /\ (~(Truthy(audIn.projectNumber) /\ Truthy(audIn.backendServiceId))
              /\ ~(Truthy(audIn.projectNumber) /\ Truthy(audIn.projectId)))
              => audOut = Null
        /\ ~Truthy(audIn.projectNumber) => audOut = Null

C2_Witness ==
    /\ audOut # Pending
    /\ ~Truthy(audIn.backendServiceId) /\ Truthy(audIn.projectNumber) /\ Truthy(audIn.projectId)
    /\ IsAppEngineForm(audOut)

-----------------------------------------------------------------------------
(* Properties of the gate (under Spec) *)

\* enforcement as the environment sets it
EnforcementOn == config(env).env = "production" \/ config(env).iap.enabled

\* the configuration from which no audience can be built
NoAudienceConfigured ==
    \/ ~Truthy(config(env).iap.projectNumber)
    \/ (~Truthy(config(env).iap.backendServiceId) /\ ~Truthy(config(env).iap.projectId))

Arrived(i) == reqs[i].pc # "idle"

\* C3: in enforced mode a request without the assertion header is rejected with
\* Unauthorized at once: no key fetch, no signature verification and no
\* Directory read or write was made for it.
C3_MissingHeaderRejectedFirst ==
    \A i \in Reqs :
        (EnforcementOn /\ Arrived(i) /\ reqs[i].header = Nil) =>
            /\ reqs[i].pc = "done" /\ reqs[i].nextArg = "Unauthorized"
            /\ ~reqs[i].keyFetchCalled /\ ~reqs[i].verifyCalled
            /\ reqs[i].dirReads = 0 /\ reqs[i].dirWrites = 0

C3_Witness ==
    \E i \in Reqs : EnforcementOn /\ Arrived(i) /\ reqs[i].header = Nil /\ reqs[i].pc = "done"

\* C4 as stated: in enforced mode with no audience configured every request,
\* with or without the header, fails with InternalServerError.
C4_NoAudienceAlways500 ==
    \A i \in Reqs :
        (EnforcementOn /\ NoAudienceConfigured /\ Arrived(i)) =>
            reqs[i].pc = "done" /\ reqs[i].nextArg = "InternalServerError"

\* C4 amended: in enforced mode with no audience configured, a request that
\* carries the assertion header fails with InternalServerError and never with
\* Unauthorized, before any key fetch; a request without the header is
\* rejected with Unauthorized, the header being looked at first.
C4_NoAudience500WithHeader ==
    \A i \in Reqs :
        (EnforcementOn /\ NoAudienceConfigured /\ Arrived(i)) =>
            /\ reqs[i].pc = "done" /\ ~reqs[i].keyFetchCalled
            /\ reqs[i].header # Nil => reqs[i].nextArg = "InternalServerError"
            /\ reqs[i].header = Nil => reqs[i].nextArg = "Unauthorized"

C4_Witness ==
    \E i \in Reqs :
        /\ EnforcementOn /\ NoAudienceConfigured
        /\ reqs[i].pc = "done" /\ reqs[i].header # Nil /\ reqs[i].nextArg = "InternalServerError"

\* the verification of request i failed on the audience or on the expiry
FailedOnAudOrExp(i) ==
    /\ reqs[i].verifyResult = "Error"
    /\ reqs[i].header.sigOk /\ reqs[i].header.iss = IapIssuer
    /\ \/ reqs[i].header.aud # reqs[i].expectedAudience
       \/ reqs[i].header.exp < NowSecs(now)

\* C5 as stated: in enforced mode a token whose verification fails on its
\* audience or its expiry is rejected with the Unauthorized kind; no identity
\* or session is attached and the request wrote nothing to the Directory.
C5_BadTokenUnauthorized ==
    \A i \in Reqs :
        (EnforcementOn /\ FailedOnAudOrExp(i)) =>
            /\ reqs[i].pc = "done" /\ reqs[i].nextArg = "Unauthorized"
            /\ reqs[i].iapUser = Nil /\ reqs[i].sessionData = Nil /\ reqs[i].dirWrites = 0

\* C6: a token that passes the signature, audience and issuer verification but
\* carries no email or no sub is rejected with Unauthorized, and no identity is
\* attached to the request.
C6_MissingClaimsUnauthorized ==
    \A i \in Reqs :
        (reqs[i].verifyResult = "ok"
            /\ (~Truthy(reqs[i].header.email) \/ ~Truthy(reqs[i].header.sub))) =>
            /\ reqs[i].pc = "done" /\ reqs[i].nextArg = "Unauthorized"
            /\ reqs[i].iapUser = Nil /\ reqs[i].sessionData = Nil

C6_Witness ==
    \E i, j \in Reqs :
        /\ reqs[i].verifyResult = "ok" /\ ~Truthy(reqs[i].header.email)
        /\ reqs[j].verifyResult = "ok" /\ ~Truthy(reqs[j].header.sub)

\* C7 as stated: the development identity is given to a request only with
\* enforcement off and devAutoSeed.enabled set; with enforcement off and the
\* flag unset the request is rejected and has no identity.
C7_DevIdentityOnlyWithFlag ==
    \A i \in Reqs :
        /\ reqs[i].identityFrom = "dev" =>
              (~EnforcementOn /\ config(env).iap.devAutoSeed.enabled)
        /\ (Arrived(i) /\ ~EnforcementOn /\ ~config(env).iap.devAutoSeed.enabled) =>
              (reqs[i].iapUser = Nil /\ reqs[i].pc = "done" /\ reqs[i].nextArg = "Unauthorized")

\* C8: with enforcement on no request has the development identity: every
\* identity attached to a request is the payload of the token the request
\* carried, and that token passed the verification.
C8_NoDevIdentityWhenEnforced ==
    EnforcementOn =>
        \A i \in Reqs :
            /\ reqs[i].identityFrom # "dev"
            /\ reqs[i].iapUser # Nil =>
                  /\ reqs[i].identityFrom = "token" /\ reqs[i].verifyResult = "ok"
                  /\ reqs[i].header # Nil
                  /\ reqs[i].iapUser.sub = reqs[i].header.sub
                  /\ reqs[i].iapUser.email = reqs[i].header.email

C8_Witness ==
    /\ EnforcementOn /\ config(env).env # "production"
    /\ \E i \in Reqs : reqs[i].iapUser # Nil /\ reqs[i].sessionData # Nil

\* C9 as stated: with enforcement off and no development fallback configured
\* (the auto-seed flag unset) every request is rejected with Unauthorized, has
\* no identity and no session, and made no Directory access.
C9_NeitherModeUnauthorized ==
    \A i \in Reqs :
        (Arrived(i) /\ ~EnforcementOn /\ ~config(env).iap.devAutoSeed.enabled) =>
            /\ reqs[i].pc = "done" /\ reqs[i].nextArg = "Unauthorized"
            /\ reqs[i].iapUser = Nil /\ reqs[i].sessionData = Nil
            /\ reqs[i].dirReads = 0 /\ reqs[i].dirWrites = 0

-----------------------------------------------------------------------------
(* Properties of the development identity (under SpecDev) *)

\* C10: any two createDevIAPUser calls of a process return the same email and
\* the same subject id, accounts.google.com:dev-<configured email>; each call's
\* iat is the clock at that call in whole seconds and its exp is iat + 3600.
C10_DevIdentityDeterministic ==
    \A j, k \in 1..Len(devCalls) :
        /\ devCalls[j].user.email = devCalls[k].user.email
        /\ devCalls[j].user.sub = devCalls[k].user.sub
        /\ devCalls[j].user.email = config(env).iap.devAutoSeed.user.email
        /\ devCalls[j].user.sub = "accounts.google.com:dev-" \o config(env).iap.devAutoSeed.user.email
        /\ devCalls[j].user.iat * 1000 <= devCalls[j].at
        /\ devCalls[j].at < (devCalls[j].user.iat + 1) * 1000
        /\ devCalls[j].user.exp = devCalls[j].user.iat + 3600

C10_Witness ==
    /\ Len(devCalls) >= 2
    /\ devCalls[1].user.iat < devCalls[2].user.iat
    /\ devCalls[1].user.exp < devCalls[2].user.exp

-----------------------------------------------------------------------------
(* Properties of provisioning (under Spec) *)

\* the part of an email after the '@'
DomainOf(email) == At(Split(email, "@"), 1)

\* C11: for a never-seen subject id whose email domain has a registered
\* Company, the login that creates the User adds exactly one User to the
\* Directory, linked to that Company and carrying the subject id as external
\* id; a login that starts when a User with its subject id is stored gets
\* that same User and leaves the Users as they are.
C11_FirstLoginCreatesOneUser ==
    [][\A i \in Reqs :
         /\ (reqs[i].pc = "createUser" /\ reqs'[i].pc = "findSessions") =>
               /\ findByExternalId(reqs[i].iapUser.sub) = {}
               /\ Cardinality(users') = Cardinality(users) + 1
               /\ users' = users \cup {reqs'[i].user}
               /\ reqs'[i].user.externalId = reqs[i].iapUser.sub
               /\ \E c \in companies :
                     /\ DomainOf(reqs[i].iapUser.email) \in c.domains
                     /\ reqs'[i].user.companyId = c.id
         /\ (reqs[i].pc = "findUser" /\ reqs'[i] # reqs[i]
               /\ findByExternalId(reqs[i].iapUser.sub) # {}) =>
               /\ users' = users
               /\ reqs'[i].pc = "findSessions"
               /\ reqs'[i].user \in users
               /\ reqs'[i].user.externalId = reqs[i].iapUser.sub
               /\ findByExternalId(reqs[i].iapUser.sub) = {reqs'[i].user}]_vars

\* a first login that created the User under the registered Company, and a
\* later login with the same subject id that was given the same User
C11_Witness ==
    \E i, j \in Reqs :
        /\ i # j /\ companies = {AcmeCompany} /\ Cardinality(users) = 1
        /\ reqs[i].identityFrom = "token" /\ reqs[j].identityFrom = "token"
        /\ reqs[i].pc = "done" /\ reqs[i].sessionData # Nil /\ reqs[i].dirWrites = 2
        /\ reqs[j].pc = "done" /\ reqs[j].sessionData # Nil /\ reqs[j].dirWrites = 0
        /\ reqs[i].user = reqs[j].user /\ reqs[i].user \in users
        /\ reqs[i].user.companyId = AcmeCompany.id

\* development auto-seed as the configuration declares it: enforcement off and
\* the devAutoSeed.enabled flag set
AutoSeedDeclared == ~EnforcementOn /\ config(env).iap.devAutoSeed.enabled

\* C12 as stated: when the Company lookup of a never-seen subject id finds no
\* Company for the email domain and auto-seed is not active, the request fails
\* with Forbidden carrying that domain, and the Users, Companies and Sessions
\* of the Directory stay as they are.
C12_NoCompanyForbidden ==
    [][\A i \in Reqs :
         (reqs[i].pc = "findCompany" /\ reqs'[i] # reqs[i]
            /\ findByDomain(DomainOf(reqs[i].iapUser.email)) = {}
            /\ ~AutoSeedDeclared) =>
            /\ reqs'[i].pc = "done" /\ reqs'[i].nextArg = "Forbidden"
            /\ reqs'[i].errorDomain = DomainOf(reqs[i].iapUser.email)
            /\ reqs'[i].user = Nil /\ reqs'[i].sessionData = Nil
            /\ users' = users /\ companies' = companies /\ sessions' = sessions]_vars

\* request i has had the answer to its UserRepository.create call
TriedUserCreate(i) ==
    /\ reqs[i].company # Nil /\ ~reqs[i].dirFailed
    /\ reqs[i].pc \in {"findSessions", "createSession", "done"}

\* C13: in every interleaving of first logins with the same never-seen subject
\* id no two Users share a subject id, and once a login has had the answer to
\* its create call the Directory holds exactly one User for its subject id;
\* so it does when both logins have ended.
C13_OneUserPerSubject ==
    /\ \A u, v \in users : u.externalId = v.externalId => u = v
    /\ \A i \in Reqs :
          TriedUserCreate(i) => Cardinality(findByExternalId(reqs[i].iapUser.sub)) = 1

\* both logins found no User, both called create, and both have ended
C13_Witness ==
    \E i, j \in Reqs :
        /\ i # j /\ reqs[i].iapUser # Nil /\ reqs[j].iapUser # Nil
        /\ reqs[i].iapUser.sub = reqs[j].iapUser.sub
        /\ TriedUserCreate(i) /\ TriedUserCreate(j)
        /\ reqs[i].pc = "done" /\ reqs[j].pc = "done"
        /\ reqs[i].sessionData # Nil /\ reqs[j].conflict
        /\ Cardinality(findByExternalId(reqs[i].iapUser.sub)) = 1

\* C14 as stated: a create that the Directory refuses as a duplicate is
\* recovered from: the request that lost the race raises no error, re-fetches
\* the record the other request created and ends with a session attached.
C14_ConflictRecovered ==
    \A i \in Reqs :
        reqs[i].conflict =>
            /\ reqs[i].thrown = "none"
            /\ reqs[i].pc = "done" => (reqs[i].sessionData # Nil /\ reqs[i].nextArg = "none")

\* C20 as stated: while enforcement is on, every request whose identity has
\* an email domain without a Company fails: it gets no User and no session,
\* and once it has ended it has failed with Forbidden.
C20_NoCompanyAlwaysFails ==
    EnforcementOn =>
        \A i \in Reqs :
            (reqs[i].iapUser # Nil /\ Truthy(DomainOf(reqs[i].iapUser.email))
               /\ findByDomain(DomainOf(reqs[i].iapUser.email)) = {}) =>
                /\ reqs[i].user = Nil /\ reqs[i].sessionData = Nil
                /\ reqs[i].pc = "done" => reqs[i].nextArg = "Forbidden"

\* C20 amended: while enforcement is on no step of any request changes the Companies
\* of the Directory, and a request whose identity has a subject id that no
\* User holds and an email domain with no Company gets no User and no
\* session: once it has ended it has failed with Forbidden.
C20_NoCompanyCreatedWhenEnforced ==
    /\ [][EnforcementOn => companies' = companies]_vars
    /\ [](EnforcementOn =>
            \A i \in Reqs :
                /\ reqs[i].pc # "createCompany"
                /\ (reqs[i].iapUser # Nil /\ Truthy(DomainOf(reqs[i].iapUser.email))
                      /\ findByExternalId(reqs[i].iapUser.sub) = {}
                      /\ findByDomain(DomainOf(reqs[i].iapUser.email)) = {}) =>
                      /\ reqs[i].user = Nil /\ reqs[i].sessionData = Nil
                      /\ reqs[i].pc = "done" => reqs[i].nextArg = "Forbidden")

\* enforcement switched on outside production, where devAutoSeed is
\* configured: the login for a domain without a Company was refused
C20_Witness ==
    /\ EnforcementOn /\ getIAPConfig(env).devAutoSeed # Nil /\ companies = {}
    /\ \E i \in Reqs :
          /\ reqs[i].pc = "done" /\ reqs[i].nextArg = "Forbidden"
          /\ reqs[i].errorDomain = "acme.com" /\ reqs[i].dirWrites = 0

-----------------------------------------------------------------------------
(* Properties of the cookie path (under SpecCookie) *)

\* the route was built with passThruWithoutSession set
PassThru(r) == r.options # Nil /\ r.options.passThruWithoutSession

\* C16: a request that reaches the route with no session attached and no
\* session cookie is answered 401 and the next stage is not called when
\* passThruWithoutSession is unset or false; when it is set, the next stage is
\* called, no session is attached, no response is written and the Directory
\* is not asked.
C16_NoCookieDeniedUnlessPassThru ==
    \A i \in Reqs :
        (Arrived(i) /\ reqs[i].sessionData = Nil /\ ~Truthy(CookieSessionId(reqs[i]))) =>
            /\ reqs[i].pc = "done" /\ reqs[i].dirReads = 0 /\ reqs[i].dirWrites = 0
            /\ ~PassThru(reqs[i]) => (reqs[i].resStatus = 401 /\ reqs[i].nextCalls = 0)
            /\ PassThru(reqs[i]) => (reqs[i].resStatus = 0 /\ reqs[i].nextCalls = 1)

\* one request without a cookie was let through by the option, another, on a
\* route built without options, was denied
C16_Witness ==
    \E i, j \in Reqs :
        /\ reqs[i].sessionData = Nil /\ ~Truthy(CookieSessionId(reqs[i]))
        /\ PassThru(reqs[i]) /\ reqs[i].nextCalls = 1
        /\ reqs[j].sessionData = Nil /\ ~Truthy(CookieSessionId(reqs[j]))
        /\ reqs[j].resStatus = 401
        /\ reqs[j].options = Nil

\* C17: when the lookup of the cookie's session id finds nothing the request
\* is answered 401 and the next stage is not called; when it finds a session,
\* exactly the pair (session id, user id) of that stored session is attached
\* and the next stage is called, with no response written.
C17_CookieSessionLookup ==
    \A i \in Reqs :
        /\ reqs[i].session = Nil =>
              /\ reqs[i].resStatus = 401 /\ reqs[i].nextCalls = 0
              /\ reqs[i].sessionData = Nil
        /\ reqs[i].session \notin {NotYet, Nil} =>
              /\ reqs[i].session \in sessions
              /\ reqs[i].session.sessionId = CookieSessionId(reqs[i])
              /\ reqs[i].sessionData = [sessionId |-> reqs[i].session.sessionId,
                                        userId |-> reqs[i].session.userId]
              /\ reqs[i].nextCalls = 1 /\ reqs[i].resStatus = 0

\* an unknown session id was refused and a stored one was accepted
C17_Witness ==
    \E i, j \in Reqs :
        /\ CookieSessionId(reqs[i]) = "s9" /\ reqs[i].session = Nil /\ reqs[i].resStatus = 401
        /\ CookieSessionId(reqs[j]) = "s2" /\ reqs[j].session = LiveSession2
        /\ reqs[j].sessionData.userId = AnnUser.id /\ reqs[j].nextCalls = 1

-----------------------------------------------------------------------------
(* Properties of the gate's error handling (under SpecFaulty) *)

\* C18: whatever is thrown while the identity is validated, the User is
\* provisioned or the Session is resolved reaches the error responder through
\* one call next(error) carrying the kind that was thrown (BadRequest,
\* Forbidden, InternalServerError, Unauthorized or an error of no class); the
\* gate writes no response and attaches no session.
C18_ErrorsPassedUnchanged ==
    \A i \in Reqs :
        reqs[i].thrown # "none" =>
            /\ reqs[i].pc = "done"
            /\ reqs[i].nextCalls = 1 /\ reqs[i].nextArg = reqs[i].thrown
            /\ reqs[i].resStatus = 0 /\ reqs[i].resBody = Nil
            /\ reqs[i].sessionData = Nil

\* a Forbidden from provisioning and a BadRequest from the domain check, each
\* handed on as it was thrown
C18_Witness ==
    \E i, j \in Reqs :
        /\ reqs[i].thrown = "Forbidden" /\ reqs[i].nextArg = "Forbidden"
        /\ reqs[j].thrown = "BadRequest" /\ reqs[j].nextArg = "BadRequest"

\* C19 as stated: a request whose Directory call failed with an error of no
\* class during provisioning or session resolution is rejected as
\* Unauthorized (401) at the gate, not with the error as it was thrown.
C19_DirectoryFailureUnauthorized ==
    \A i \in Reqs :
        reqs[i].dirFailed =>
            /\ reqs[i].pc = "done" /\ reqs[i].sessionData = Nil
            /\ reqs[i].nextArg = "Unauthorized" \/ reqs[i].resStatus = 401

-----------------------------------------------------------------------------
(* Properties of provisioning, continued (under Spec) *)

\* the domain of the configured auto-seed user's email
SeedDomain == DomainOf(config(env).iap.devAutoSeed.user.email)

\* C21: when the auto-seed branch is taken for a never-seen subject id whose
\* domain has no Company, the step that creates the Company adds exactly one
\* Company whose name is the domain of the configured auto-seed user's email
\* and whose domains are that domain alone; the User created next is linked
\* to that Company.
C21_SeededCompanyNamedAfterSeedDomain ==
    [][\A i \in Reqs :
         /\ (reqs[i].pc = "createCompany" /\ reqs'[i].pc = "createUser") =>
               /\ companies' = companies \cup {reqs'[i].company}
               /\ Cardinality(companies') = Cardinality(companies) + 1
               /\ reqs'[i].company.name = SeedDomain
               /\ reqs'[i].company.domains = {SeedDomain}
               /\ Truthy(SeedDomain)
         /\ (reqs[i].pc = "createUser" /\ reqs'[i].pc = "findSessions"
               /\ reqs[i].company.createdBy = "system") =>
               /\ reqs[i].company \in companies
               /\ reqs'[i].user.companyId = reqs[i].company.id
               /\ reqs'[i].user \in users']_vars

\* a Company named after the auto-seed user's domain was created although
\* another Company existed, and the new User belongs to it
C21_Witness ==
    \E i \in Reqs, c \in companies, u \in users :
        /\ AcmeCompany \in companies /\ c # AcmeCompany
        /\ c.name = "temp-local-only.invalid" /\ c.domains = {"temp-local-only.invalid"}
        /\ reqs[i].company = c /\ reqs[i].user = u /\ u.companyId = c.id
        /\ reqs[i].dirReads >= 2

\* C23: when the lookup by subject id finds no User and the identity's email
\* has no text after the '@', the request fails with BadRequest at that step:
\* it has made the one lookup and no Company lookup, and Users, Companies and
\* Sessions stay as they are.
C23_NoDomainBadRequest ==
    [][\A i \in Reqs :
         (reqs[i].pc = "findUser" /\ reqs'[i] # reqs[i]
            /\ findByExternalId(reqs[i].iapUser.sub) = {}
            /\ ~Truthy(DomainOf(reqs[i].iapUser.email))) =>
            /\ reqs'[i].pc = "done" /\ reqs'[i].nextArg = "BadRequest"
            /\ reqs'[i].dirReads = 1 /\ reqs'[i].dirWrites = 0
            /\ reqs'[i].user = Nil /\ reqs'[i].company = Nil /\ reqs'[i].sessionData = Nil
            /\ users' = users /\ companies' = companies /\ sessions' = sessions]_vars

\* the login of an identity whose email is "bob" has ended with BadRequest
C23_Witness ==
    \E i \in Reqs :
        /\ reqs[i].pc = "done" /\ reqs[i].thrown = "BadRequest"
        /\ reqs[i].iapUser.email = "bob" /\ reqs[i].dirReads = 1
        /\ users = {} /\ sessions = {}

-----------------------------------------------------------------------------
(* Properties of provisioning for a returning user (under SpecSession) *)

\* C22: when the lookup by subject id finds a User, the request gets that
\* stored User as it is and goes on to the session; the step writes nothing:
\* Users and Companies stay as they are whatever email, name or picture the
\* identity carries, and the request has made one Directory read, the lookup
\* itself, and no Company lookup.
C22_ExistingUserReturnedUnchanged ==
    [][\A i \in Reqs :
         (reqs[i].pc = "findUser" /\ reqs'[i] # reqs[i]
            /\ findByExternalId(reqs[i].iapUser.sub) # {}) =>
            /\ users' = users /\ companies' = companies
            /\ reqs'[i].user \in users
            /\ reqs'[i].user.externalId = reqs[i].iapUser.sub
            /\ reqs'[i].dirWrites = reqs[i].dirWrites
            /\ reqs'[i].dirReads = reqs[i].dirReads + 1
            /\ reqs'[i].company = Nil /\ reqs'[i].errorDomain = Undefined
            /\ reqs'[i].pc = "findSessions"]_vars

\* a login whose identity differs from the stored User in email, name and
\* picture, and whose email domain has no Company, was given the stored User
C22_Witness ==
    \E i \in Reqs :
        /\ reqs[i].pc = "done" /\ reqs[i].user = AnnUser /\ users = {AnnUser}
        /\ reqs[i].iapUser.email # AnnUser.email
        /\ reqs[i].iapUser.name # AnnUser.displayName
        /\ reqs[i].iapUser.picture # AnnUser.avatar
        /\ findByDomain(DomainOf(reqs[i].iapUser.email)) = {}
        /\ reqs[i].sessionData # Nil /\ reqs[i].company = Nil

-----------------------------------------------------------------------------
(* Properties of the name parsing (under SpecName) *)

\* the text before the first '@'
LocalPart(email) == At(Split(email, "@"), 0)

IsWhitespace(ch) == ch = " " \/ ch = "\t"

RECURSIVE WsScan(_, _, _)
\* the whitespace-delimited tokens of s: acc holds the tokens closed so far,
\* cur the token being read
WsScan(s, cur, acc) ==
    IF s = "" THEN (IF cur = "" THEN acc ELSE Append(acc, cur))
    ELSE IF IsWhitespace(SubSeq(s, 1, 1))
      THEN WsScan(SubSeq(s, 2, Len(s)), "", IF cur = "" THEN acc ELSE Append(acc, cur))
    ELSE WsScan(SubSeq(s, 2, Len(s)), cur \o SubSeq(s, 1, 1), acc)

WsTokens(s) == IF Truthy(s) THEN WsScan(s, "", <<>>) ELSE <<>>

\* the User a request was given by its own create call
Created(i) == reqs[i].dirWrites >= 1 /\ reqs[i].user # Nil

\* C24 as stated: a created User's first name is the first
\* whitespace-delimited token of the identity's display name, and "User" when
\* the display name is absent; its last name is the remaining tokens joined
\* by a space, and the empty string when there are none.
C24_NameFromDisplayName ==
    \A i \in Reqs :
        Created(i) =>
            LET tokens == WsTokens(reqs[i].iapUser.name) IN
            /\ reqs[i].user.firstName = IF Len(tokens) = 0 THEN "User" ELSE tokens[1]
            /\ reqs[i].user.lastName = IF Len(tokens) <= 1 THEN "" ELSE Join(Tail(tokens), " ")

\* C24 amended: the name that is parsed is the display name, or the text of
\* the email before the '@' when the display name is absent or empty; it is
\* cut at every single space and at nothing else.  The first name is the
\* first piece, or "User" when that piece is empty, and never holds a space;
\* the last name is the other pieces joined by single spaces, empty when
\* there are none.
C24_NameFromDisplayNameOrEmail ==
    \A i \in Reqs :
        Created(i) =>
            LET id == reqs[i].iapUser
                parsed == IF id.name \in {Undefined, ""} THEN LocalPart(id.email) ELSE id.name
                pieces == Split(parsed, " ")
            IN /\ reqs[i].user.firstName = IF pieces[1] = "" THEN "User" ELSE pieces[1]
               /\ reqs[i].user.lastName = Join(Tail(pieces), " ")
               /\ \A k \in 1..Len(reqs[i].user.firstName) :
                     SubSeq(reqs[i].user.firstName, k, k) # " "
               /\ Len(pieces) = 1 => reqs[i].user.lastName = ""
               /\ pieces[1] # "" => parsed = Join(<<reqs[i].user.firstName>> \o Tail(pieces), " ")

\* a User created from an identity without display name: named after the
\* text before the '@' of its email
C24_Witness ==
    \E i \in Reqs :
        /\ Created(i) /\ reqs[i].iapUser.name = Undefined
        /\ reqs[i].iapUser.email = "first last@acme.com"
        /\ reqs[i].user.firstName = "first" /\ reqs[i].user.lastName = "last"
        /\ reqs[i].user \in users

-----------------------------------------------------------------------------
(* Properties of createSession (under SpecSession) *)

\* the claims of the identity a session id could have been derived from
IdentityClaims(r) ==
    { r.iapUser.sub, r.iapUser.email, r.iapUser.name, r.iapUser.aud, r.iapUser.iss,
      r.user.id, r.user.email }

\* C25: when findOrCreateSession has found no session for the user, its
\* create step persists exactly one new Session: its id is none of the
\* stored session ids and none of the identity's claims, its user id is the
\* given user's, and its expiry is the creation time plus 30 days; that
\* Session is the one attached.
C25_FreshSessionCreated ==
    [][\A i \in Reqs :
         (reqs[i].pc = "createSession" /\ reqs'[i] # reqs[i]) =>
             \E x \in sessions' :
                 /\ x \notin sessions
                 /\ sessions' = sessions \cup {x}
                 /\ x.sessionId \notin {y.sessionId : y \in sessions}
                 /\ x.sessionId \notin IdentityClaims(reqs[i])
                 /\ x.userId = reqs[i].user.id
                 /\ x.expiresAt = [ms |-> now, plusDays |-> 30]
                 /\ reqs'[i].sessionData = x
                 /\ reqs'[i].nextCalls = 1]_vars

\* a Session created for a new user while the sessions of another are stored
C25_Witness ==
    \E i \in Reqs :
        /\ reqs[i].pc = "done" /\ reqs[i].dirWrites >= 1 /\ reqs[i].sessionData # Nil
        /\ reqs[i].sessionData \in sessions
        /\ reqs[i].sessionData.userId = reqs[i].user.id
        /\ reqs[i].sessionData.sessionId \notin {ExpiredSession1.sessionId, ExpiredSession2.sessionId}
        /\ ExpiredSession1 \in sessions
        /\ reqs[i].sessionData.expiresAt.plusDays = 30

-----------------------------------------------------------------------------
(* Properties of session resolution under concurrent requests (under Spec) *)

\* C26: in every reachable state, also after two requests for the same user
\* have interleaved between the session lookup and the session create, each
\* user has at most one Session.
C26_OneSessionPerUser ==
    \A u \in users : Cardinality(findByUserId(u.id)) <= 1

-----------------------------------------------------------------------------
(* Properties of the order of a request's steps (under SpecFaulty) *)

ObtainingIdentity == {"idle", "keys", "verify"}
ResolvingUser == {"findUser", "findCompany", "createCompany", "createUser"}
ResolvingSession == {"findSessions", "createSession"}

\* the position of a step in the gate's sequence
StepRank(pc) ==
    CASE pc = "idle" -> 0
      [] pc = "keys" -> 1
      [] pc = "verify" -> 2
      [] pc = "findUser" -> 3
      [] pc = "findCompany" -> 4
      [] pc = "createCompany" -> 5
      [] pc = "createUser" -> 6
      [] pc = "findSessions" -> 7
      [] pc = "createSession" -> 8
      [] pc = "done" -> 9

DirectoryCalls(r) == r.dirReads + r.dirWrites

\* what a request has obtained by the time it stands at each step
StepsInOrder(r) ==
    /\ r.pc \in ObtainingIdentity =>
          r.iapUser = Nil /\ r.user = Nil /\ r.sessionData = Nil
          /\ DirectoryCalls(r) = 0 /\ r.nextCalls = 0
    /\ r.pc \in ResolvingUser =>
          r.iapUser # Nil /\ r.user = Nil /\ r.sessionData = Nil /\ r.nextCalls = 0
    /\ r.pc \in ResolvingSession =>
          r.iapUser # Nil /\ r.user # Nil /\ r.sessionData = Nil /\ r.nextCalls = 0
    /\ r.sessionData # Nil =>
          r.iapUser # Nil /\ r.user # Nil /\ r.pc = "done" /\ r.nextCalls = 1
    /\ r.user # Nil => r.iapUser # Nil
    /\ DirectoryCalls(r) > 0 => r.iapUser # Nil

\* C27: within one request the identity is obtained first, then the User is
\* resolved, then the Session is resolved, then the session is attached and
\* the next stage called: a request only moves forward in that sequence, none
\* of its Directory reads or writes happens before its identity is obtained,
\* and no session lookup or create happens before its User is resolved.
C27_StepsStrictlyOrdered ==
    /\ [][\A i \in Reqs :
            reqs'[i] # reqs[i] =>
                /\ StepRank(reqs'[i].pc) > StepRank(reqs[i].pc)
                /\ DirectoryCalls(reqs'[i]) > DirectoryCalls(reqs[i]) =>
                      reqs[i].iapUser # Nil /\ reqs[i].pc \notin ObtainingIdentity
                /\ reqs[i].pc \in ResolvingSession =>
                      reqs[i].user # Nil /\ DirectoryCalls(reqs'[i]) = DirectoryCalls(reqs[i]) + 1
                /\ (reqs'[i].sessionData # Nil /\ reqs[i].sessionData = Nil) =>
                      reqs[i].pc \in ResolvingSession /\ reqs'[i].nextCalls = 1]_vars
    /\ [](\A i \in Reqs : StepsInOrder(reqs[i]))

\* one request that went through every stage and created its session, and
\* one whose session lookup failed after its User was resolved
C27_Witness ==
    \E i, j \in Reqs :
        /\ reqs[i].pc = "done" /\ reqs[i].sessionData # Nil
        /\ reqs[i].verifyCalled /\ reqs[i].dirReads >= 2 /\ reqs[i].dirWrites >= 1
        /\ reqs[j].pc = "done" /\ reqs[j].dirFailed /\ reqs[j].user # Nil
        /\ reqs[j].sessionData = Nil

-----------------------------------------------------------------------------
(* Properties of failures while a User is created (under SpecFaulty) *)

\* the request's own Company create has answered
CompanyCreated(r) == r.company # Nil /\ r.company.createdBy = "system" /\ r.dirWrites >= 1

\* C28: in auto-seed provisioning the User create is attempted only after the
\* Company create has completed, the Company being stored; and whenever the
\* User create fails (refused by the Directory or failing otherwise), the
\* failure is raised to the caller: the request ends with the error passed
\* on, no Session is looked up or created for it, and no session is attached.
C28_UserCreateFailureRaised ==
    /\ [][\A i \in Reqs :
            /\ (reqs[i].pc = "createCompany" /\ reqs'[i].pc = "createUser") =>
                  CompanyCreated(reqs'[i]) /\ reqs'[i].company \in companies'
                  /\ reqs'[i].company \notin companies /\ users' = users
            /\ (reqs[i].pc = "createUser" /\ reqs'[i] # reqs[i] /\ users' = users) =>
                  /\ reqs'[i].pc = "done"
                  /\ reqs'[i].thrown # "none" /\ reqs'[i].nextArg = reqs'[i].thrown
                  /\ reqs'[i].nextCalls = 1
                  /\ reqs'[i].user = Nil /\ reqs'[i].sessionData = Nil
                  /\ reqs'[i].dirReads = reqs[i].dirReads
                  /\ sessions' = sessions]_vars
    /\ [](\A i \in Reqs :
            /\ reqs[i].pc = "createUser" =>
                  reqs[i].company # Nil /\ reqs[i].company \in companies
            /\ (reqs[i].pc = "done" /\ reqs[i].user = Nil) =>
                  reqs[i].sessionData = Nil /\ reqs[i].thrown # "none")

\* auto-seed provisioning: a request created the Company, and its User create
\* was refused because another request had created the User first
C28_Witness ==
    \E i \in Reqs :
        /\ reqs[i].identityFrom = "dev" /\ CompanyCreated(reqs[i])
        /\ reqs[i].company \in companies
        /\ reqs[i].conflict /\ reqs[i].dirWrites = 2
        /\ reqs[i].pc = "done" /\ reqs[i].thrown = "Error"
        /\ reqs[i].sessionData = Nil /\ users # {}

-----------------------------------------------------------------------------
(* Properties of the last-accessed update (under SpecCookie) *)

\* the outcome of a request: what was attached, handed on and answered
Outcome(r) ==
    [sessionData |-> r.sessionData, nextCalls |-> r.nextCalls, nextArg |-> r.nextArg,
     resStatus |-> r.resStatus, resBody |-> r.resBody, thrown |-> r.thrown, pc |-> r.pc]

\* C29: on the cookie path the last-accessed update never changes the outcome
\* of the request: from the moment the update is started the session view is
\* attached and the next stage has been called once with no response
\* written, and this stays so whether the update is still pending, has
\* succeeded or has failed; the update settles only after the next stage was
\* called, and its settling changes nothing else of the request.
C29_TouchFailureSwallowed ==
    /\ [][\A i \in Reqs :
            /\ (reqs[i].touch = "pending" /\ reqs'[i] # reqs[i]) =>
                  /\ reqs'[i].touch \in {"ok", "failed"}
                  /\ reqs[i].nextCalls = 1
                  /\ Outcome(reqs'[i]) = Outcome(reqs[i])
                  /\ sessions' = sessions
            /\ (reqs[i].touch = "none" /\ reqs'[i].touch # "none") =>
                  reqs'[i].touch = "pending" /\ reqs'[i].nextCalls = 1]_vars
    /\ [](\A i \in Reqs :
            /\ reqs[i].touch \in {"pending", "ok", "failed"} =>
                  /\ reqs[i].sessionData = [sessionId |-> reqs[i].session.sessionId,
                                            userId |-> reqs[i].session.userId]
                  /\ reqs[i].nextCalls = 1 /\ reqs[i].nextArg = "none"
                  /\ reqs[i].resStatus = 0 /\ reqs[i].thrown = "none"
            /\ reqs[i].session \notin {NotYet, Nil} => reqs[i].touch # "none")

\* one request whose update failed and one whose update succeeded, both with
\* their session attached and handed on
C29_Witness ==
    \E i, j \in Reqs :
        /\ reqs[i].touch = "failed" /\ reqs[i].sessionData # Nil /\ reqs[i].nextCalls = 1
        /\ reqs[i].resStatus = 0
        /\ reqs[j].touch = "ok" /\ reqs[j].sessionData # Nil /\ reqs[j].nextCalls = 1

-----------------------------------------------------------------------------
(* Properties of the operating mode (under Spec) *)

\* the operating mode an IAPConfig stands for
Mode(cfg) ==
    IF cfg.enabled THEN "enforced"
    ELSE IF cfg.devAutoSeed # Nil THEN "development"
    ELSE "neither"

\* C30 as stated: the mode is read from configuration once, when the gate is
\* constructed, and no step of request handling evaluates it again: no
\* request calls getIAPConfig().
C30_ModeNeverReadAgain ==
    \A i \in Reqs : reqs[i].configReads = 0

\* C30 amended: the gate reads the mode once, when it is constructed, and
\* decides every request under it; provisioning reads it again for a request
\* whose domain has no Company, at most once per request, from the same
\* configuration object, which never changes, so that it obtains the mode
\* the gate holds: every request is decided under one and the same mode.
C30_OneModeForEveryRequest ==
    /\ [][/\ env' = env /\ iapConfig' = iapConfig
          /\ \A i \in Reqs :
                reqs'[i].configReads # reqs[i].configReads =>
                    /\ reqs[i].pc = "findCompany" /\ reqs[i].configReads = 0
                    /\ reqs'[i].configReads = 1
                    /\ findByDomain(DomainOf(reqs[i].iapUser.email)) = {}
                    /\ reqs'[i].pc = "createCompany" <=> Mode(iapConfig) = "development"
                    /\ reqs'[i].thrown = "Forbidden" <=> Mode(iapConfig) # "development"]_vars
    /\ [](/\ iapConfig = getIAPConfig(env)
          /\ \A i \in Reqs :
                /\ reqs[i].identityFrom = "token" => Mode(iapConfig) = "enforced"
                /\ reqs[i].keyFetchCalled => Mode(iapConfig) = "enforced"
                /\ reqs[i].identityFrom = "dev" => Mode(iapConfig) = "development"
                /\ reqs[i].pc = "createCompany" => Mode(iapConfig) = "development"
                /\ (Arrived(i) /\ Mode(iapConfig) = "enforced" /\ reqs[i].header = Nil) =>
                      reqs[i].thrown = "Unauthorized"
                /\ (Arrived(i) /\ Mode(iapConfig) = "neither") =>
                      reqs[i].thrown = "Unauthorized" /\ reqs[i].iapUser = Nil)

\* a request served under the development fallback for which provisioning
\* read the mode again, and which was given its session
C30_Witness ==
    \E i \in Reqs :
        /\ reqs[i].configReads = 1 /\ reqs[i].identityFrom = "dev"
        /\ Mode(iapConfig) = "development"
        /\ reqs[i].pc = "done" /\ reqs[i].sessionData # Nil

-----------------------------------------------------------------------------
(* Properties of validateRequest behind the gate (under SpecCookie) *)

\* the request reached the route with a Session attached by the gate: the
\* gate attaches the stored Session, the cookie path a (sessionId, userId) pair
AttachedByGate(r) == r.sessionData # Nil /\ r.sessionData \in sessions

\* C31: when the request already carries session data attached by the gate,
\* validateRequest calls the next stage at once: the request is handed on in
\* the step in which it arrives, with no Directory lookup, no last-accessed
\* update and no response written, whatever its session cookie holds, and the
\* attached session data stays the Session the gate attached.
C31_AttachedSessionPassesAtOnce ==
    /\ [][\A i \in Reqs :
            (reqs[i].pc = "idle" /\ reqs'[i].sessionData # Nil) =>
                /\ reqs'[i].pc = "done" /\ reqs'[i].nextCalls = 1
                /\ reqs'[i].nextArg = "none"
                /\ reqs'[i].sessionData \in GateSessions
                /\ sessions' = sessions]_vars
    /\ [](\A i \in Reqs :
            AttachedByGate(reqs[i]) =>
                /\ reqs[i].pc = "done" /\ reqs[i].nextCalls = 1
                /\ reqs[i].dirReads = 0 /\ reqs[i].dirWrites = 0
                /\ reqs[i].session = NotYet /\ reqs[i].touch = "none"
                /\ reqs[i].resStatus = 0 /\ reqs[i].resBody = Nil)

\* a request with the gate's session attached and a cookie naming another,
\* stored session, and one with a cookie naming no session: both handed on
C31_Witness ==
    \E i, j \in Reqs :
        /\ AttachedByGate(reqs[i]) /\ CookieSessionId(reqs[i]) = "s1"
        /\ reqs[i].sessionData.sessionId = "s2" /\ reqs[i].nextCalls = 1
        /\ AttachedByGate(reqs[j]) /\ CookieSessionId(reqs[j]) = "s9"
        /\ reqs[j].nextCalls = 1 /\ reqs[j].dirReads = 0

-----------------------------------------------------------------------------
(* Properties of the gate's continuation (under SpecFaulty) *)

\* the awaits of the gate: at each of them the request waits for an answer
\* and goes on when it comes
GateAwaits ==
    {"keys", "verify", "findUser", "findCompany", "createCompany", "createUser",
     "findSessions", "createSession"}

\* C32: the gate calls the continuation exactly once for a request: never
\* before the request has ended, once when it ends, and never again; a
\* request that has not ended stands at one of the gate's awaits.  The call has no argument
\* only when both the identity and the session are attached to the request;
\* otherwise it carries the error that was thrown, and then the gate has
\* attached no session data.
C32_ContinuationCalledOnce ==
    /\ [][\A i \in Reqs :
            /\ reqs'[i].nextCalls \in {reqs[i].nextCalls, reqs[i].nextCalls + 1}
            /\ reqs'[i].nextCalls # reqs[i].nextCalls <=>
                  (reqs[i].pc # "done" /\ reqs'[i].pc = "done")
            /\ reqs[i].pc = "done" => reqs'[i] = reqs[i]]_vars
    /\ [](\A i \in Reqs :
            /\ reqs[i].nextCalls = (IF reqs[i].pc = "done" THEN 1 ELSE 0)
            /\ reqs[i].pc \notin {"idle", "done"} => reqs[i].pc \in GateAwaits
            /\ reqs[i].pc = "done" =>
                  \/ /\ reqs[i].nextArg = "none" /\ reqs[i].thrown = "none"
                     /\ reqs[i].iapUser # Nil /\ reqs[i].sessionData # Nil
                     /\ reqs[i].sessionData \in sessions
                  \/ /\ reqs[i].nextArg # "none" /\ reqs[i].nextArg = reqs[i].thrown
                     /\ reqs[i].sessionData = Nil)

\* one request handed on with its identity and session, one handed on with
\* the error of a failed Directory call, one with the error of the validator
C32_Witness ==
    \E i, j \in Reqs :
        /\ reqs[i].pc = "done" /\ reqs[i].nextCalls = 1 /\ reqs[i].nextArg = "none"
        /\ reqs[i].identityFrom = "token" /\ reqs[i].sessionData # Nil
        /\ reqs[j].pc = "done" /\ reqs[j].nextCalls = 1 /\ reqs[j].nextArg = "Error"
        /\ reqs[j].dirFailed /\ reqs[j].sessionData = Nil

-----------------------------------------------------------------------------
(* Properties of the outcome of validateRequest (under SpecCookie) *)

HandedOn(r) == r.nextCalls = 1 /\ r.resStatus = 0 /\ r.resBody = Nil
Denied(r) == r.nextCalls = 0 /\ r.resStatus = 401 /\ r.resBody # Nil

\* C33: on the cookie path every request that has ended was either handed to
\* the next stage, once, or answered with 401, never both and never neither,
\* also when the Directory lookup threw; before it has ended neither has
\* happened, and after it has ended neither happens again.
C33_NextOrDeniedExactlyOnce ==
    /\ [][\A i \in Reqs :
            reqs[i].pc = "done" =>
                /\ reqs'[i].nextCalls = reqs[i].nextCalls
                /\ reqs'[i].resStatus = reqs[i].resStatus
                /\ reqs'[i].resBody = reqs[i].resBody
                /\ reqs'[i].pc = "done"]_vars
    /\ [](\A i \in Reqs :
            /\ reqs[i].pc = "done" =>
                  /\ HandedOn(reqs[i]) \/ Denied(reqs[i])
                  /\ ~(HandedOn(reqs[i]) /\ Denied(reqs[i]))
            /\ reqs[i].pc # "done" =>
                  reqs[i].nextCalls = 0 /\ reqs[i].resStatus = 0 /\ reqs[i].resBody = Nil
            /\ reqs[i].thrown # "none" => Denied(reqs[i]))

\* a request whose Directory lookup threw, answered 401, and one whose
\* session was found, handed on, its last-accessed update settled
C33_Witness ==
    \E i, j \in Reqs :
        /\ reqs[i].thrown = "Error" /\ reqs[i].dirReads = 1 /\ Denied(reqs[i])
        /\ reqs[j].session \in sessions /\ HandedOn(reqs[j]) /\ reqs[j].touch = "failed"

-----------------------------------------------------------------------------
(* Properties of the Directory as a whole (under SpecFaulty) *)

UserIds == {u.id : u \in users}
CompanyIds == {c.id : c \in companies}

\* C34: in every reachable state of the Directory, under any interleaving of
\* requests and with Directory calls failing at will, every Session's user id
\* is the id of a stored User and every User's company id is the id of a
\* stored Company; no step removes a User or a Company.
C34_ReferentialIntegrity ==
    /\ [][users \subseteq users' /\ companies \subseteq companies'
          /\ sessions \subseteq sessions']_vars
    /\ [](/\ \A x \in sessions : x.userId \in UserIds
          /\ \A u \in users : u.companyId \in CompanyIds)

\* auto-seed provisioning: a Company created by a request, a User linked to
\* it and a Session of that User, while a Directory call of another request
\* has failed
C34_Witness ==
    /\ \E c \in companies :
          c.createdBy = "system" /\ \E u \in users : u.companyId = c.id
                                                   /\ \E x \in sessions : x.userId = u.id
    /\ \E i \in Reqs : reqs[i].dirFailed

-----------------------------------------------------------------------------
(* Properties of the Users that provisioning creates (under Spec) *)

\* the Company a User is linked to
CompanyOf(u) == {c \in companies : c.id = u.companyId}

\* C35: every User created by provisioning, from a verified assertion and
\* from the development identity alike, has an email whose domain is one of
\* the domains of the Company the User is linked to.
C35_UserDomainIsCompanyDomain ==
    \A u \in users :
        /\ CompanyOf(u) # {}
        /\ \A c \in CompanyOf(u) : DomainOf(u.email) \in c.domains

\* a User created for the development identity and linked to the Company
\* that auto-seed provisioning created
C35_Witness ==
    \E u \in users :
        /\ u.email = DevEmail /\ u.createdBy = "system"
        /\ \E c \in CompanyOf(u) : c.createdBy = "system"
                                   /\ c.domains = {"temp-local-only.invalid"}
        /\ \E i \in Reqs : reqs[i].user = u /\ reqs[i].identityFrom = "dev"

-----------------------------------------------------------------------------
(* Properties of a login whose email is taken (under SpecEmailTaken) *)

\* the identity of the request has a subject id that no User holds and an
\* email that a User holds
EmailTaken(r) ==
    /\ r.iapUser # Nil
    /\ findByExternalId(r.iapUser.sub) = {}
    /\ \E u \in users : u.email = r.iapUser.email

\* C36: a login whose subject id is unknown but whose email belongs to a
\* stored User, one without subject id included, never leaves two Users with
\* the same email and never changes the stored User: no step of such a
\* request changes the Users or the Sessions, the request is given no User
\* and no session, and once it has ended it has failed.
C36_TakenEmailLoginFails ==
    /\ [][\A i \in Reqs :
            (EmailTaken(reqs[i]) /\ reqs'[i] # reqs[i]) =>
                users' = users /\ sessions' = sessions]_vars
    /\ [](/\ \A u, v \in users : u.email = v.email => u = v
          /\ \A i \in Reqs :
                EmailTaken(reqs[i]) =>
                    /\ reqs[i].user = Nil /\ reqs[i].sessionData = Nil
                    /\ reqs[i].pc \notin {"findSessions", "createSession"}
                    /\ reqs[i].pc = "done" => reqs[i].thrown # "none")

\* the User registered without subject id is still as it was, and the login
\* with its email was refused by the Directory at the User create
C36_Witness ==
    /\ AnnUnlinked \in users
    /\ \E i \in Reqs :
          /\ EmailTaken(reqs[i]) /\ reqs[i].iapUser.email = AnnUnlinked.email
          /\ reqs[i].conflict /\ reqs[i].pc = "done" /\ reqs[i].thrown = "Error"
          /\ reqs[i].company = AcmeCompany /\ reqs[i].sessionData = Nil

-----------------------------------------------------------------------------
(* Properties of the session data validateRequest attaches (under SpecCookie) *)

\* the stored Sessions a cookie value names
StoredUnder(sessionId) == {x \in sessions : x.sessionId = sessionId}

\* C37: whenever validateRequest attaches session data, a Session with the
\* cookie's session id was in the Directory when it was looked up, and the
\* attached user id is that Session's user id; a request whose cookie names
\* no stored Session never gets session data attached by validateRequest.
C37_AttachedOnlyFromStoredSession ==
    /\ [][\A i \in Reqs :
            (reqs[i].sessionData = Nil /\ reqs'[i].sessionData # Nil
               /\ ~AttachedByGate(reqs'[i])) =>
                /\ reqs[i].pc = "findSession"
                /\ \E x \in StoredUnder(CookieSessionId(reqs[i])) :
                      /\ reqs'[i].sessionData.sessionId = x.sessionId
                      /\ reqs'[i].sessionData.userId = x.userId
                      /\ x.userId \in {u.id : u \in users}]_vars
    /\ [](\A i \in Reqs :
            (reqs[i].pc # "idle" /\ ~AttachedByGate(reqs[i])
               /\ StoredUnder(CookieSessionId(reqs[i])) = {}) =>
                reqs[i].sessionData = Nil)

\* the cookie of one request named a stored Session, past its expiry, and
\* its pair was attached; the cookie of another named none and nothing was
C37_Witness ==
    \E i, j \in Reqs :
        /\ CookieSessionId(reqs[i]) = "s1" /\ reqs[i].dirReads = 1
        /\ reqs[i].sessionData = [sessionId |-> "s1", userId |-> AnnUser.id]
        /\ CookieSessionId(reqs[j]) = "s9" /\ reqs[j].dirReads = 1
        /\ reqs[j].pc = "done" /\ reqs[j].sessionData = Nil

====
